---------------------------- MODULE Spec2Model ----------------------------
(***************************************************************************)
(* A model of the protocol-adaptation layer of the yarn Threads CLI:       *)
(*   - the pagination walks of the paginated commands                      *)
(*     (src/src/commands/post.ts, search.ts, user.ts),                     *)
(*   - the doc_id cache (src/unnamed/part_001: getDocIds and helpers),     *)
(*   - the credential resolver (src/src/lib/threads-client.ts:             *)
(*     resolveCredentials and helpers) and its choice of a browser cookie  *)
(*     (pickCookieValue),                                                  *)
(*   - the normalizer (parsePostData, parseUserData, parseMedia,           *)
(*     parseTimestamp, parsePostList, parseUserList),                      *)
(*   - the client's requests (fetchWithTimeout, graphqlRequest, whoami     *)
(*     and its account-info fallback),                                     *)
(*   - a command from credential resolution to its first request           *)
(*     (src/src/commands/whoami.ts), and the identifiers that the client's *)
(*     GraphQL requests carry.                                             *)
(* Each subsystem has its own specification (SpecWalk, SpecDocIds,         *)
(* SpecCreds, SpecPick, SpecParse, SpecClient, SpecCommand, SpecRequests); *)
(* SpecDocRace runs two processes on one cache file and SpecDocClear adds  *)
(* clearDocIdCache.  The variables of the other subsystems stay at their   *)
(* idle values.                                                            *)
(***************************************************************************)
EXTENDS Integers, Sequences, FiniteSets, TLC

VARIABLES
    \* ---- pagination walk (one CLI invocation of a paginated command)
    cmd,        \* the command being run
    cmdOpts,    \* its options: --max-pages, --all, --cursor
    wpc,        \* position of the command's action callback
    maxPages,   \* const maxPages (a JS number, possibly NaN)
    cursor,     \* let cursor
    allPosts,   \* const allPosts / allUsers / allReplies
    pageCount,  \* let pageCount
    fetchLog,   \* the cursors the page fetches were issued with, in order
    lastPage,   \* the result of the most recent page fetch
    stderr,     \* lines written with console.error
    stdout,     \* what the command printed as its result (NoOutput if nothing)
    exitCode,   \* "none" while running, "1" after process.exit(1), "0" at normal end
    \* ---- doc_id cache (getDocIds, one or more CLI processes)
    file,       \* the content of ~/.config/yarn/doc-ids.json
    now,        \* Date.now(), in milliseconds
    inv,        \* per process: the state of its getDocIds call
    calls,      \* getDocIds calls started so far
    ticks,      \* clock steps taken so far
    \* ---- credential resolver (one call of resolveCredentials)
    options,    \* the options argument: CLI values and cookieSource
    env,        \* process.env
    cpc,        \* position of resolveCredentials
    cookies,    \* const cookies (filled from CLI values and environment)
    warnings,   \* const warnings
    toTry,      \* the browser sources still to be tried
    envReads,   \* the process.env keys that were looked up, in order
    browserCalls, \* the sources getCookies was called for, in order
    resolved,   \* the value resolveCredentials returned
    \* ---- cookie choice (one call of pickCookieValue)
    records,    \* the cookies argument
    wanted,     \* the name argument
    ppc,        \* "start" before the call, "done" after it
    picked,     \* the value returned
    \* ---- response normalizer (one call of a parse function)
    parser,     \* the function called
    payload,    \* its argument: the JSON value to normalize
    clock,      \* Date.now(), in seconds
    npc,        \* "start" before the call, "done" after it
    parsed,     \* what the call returned, or the error it threw
    \* ---- client (one operation of a ThreadsClient)
    operation,  \* the method called
    timeoutMs,  \* this.timeoutMs
    clientUserId, \* this.userId
    tpc,        \* "start", "graphql" or "rest" (request in flight), "done", "threw"
    reply,      \* how the last fetch ended
    answer,     \* what the method returned
    graphqlResult, \* const result = await this.graphqlRequest(...)
    \* ---- command (one CLI invocation, from its credentials to its first request)
    kpc,        \* position of the command's action callback
    client,     \* const client (NoClient before new ThreadsClient)
    sent,       \* the requests issued, each with the credentials it carried
    errLines,   \* lines written with console.error
    exitStatus, \* "none" while running, "1" after process.exit(1)
    \* ---- requests (the GraphQL requests of one client instance)
    wire,       \* the requests issued: query name, doc_id and lsd sent
    idCalls     \* getDocIds calls made by the client

walkVars == <<cmd, cmdOpts, wpc, maxPages, cursor, allPosts, pageCount,
              fetchLog, lastPage, stderr, stdout, exitCode>>

docVars == <<file, now, inv, calls, ticks>>

credVars == <<options, env, cpc, cookies, warnings, toTry, envReads, browserCalls,
              resolved>>

pickVars == <<records, wanted, ppc, picked>>

parseVars == <<parser, payload, clock, npc, parsed>>

clientVars == <<operation, timeoutMs, clientUserId, tpc, reply, answer, graphqlResult>>

commandVars == <<kpc, client, sent, errLines, exitStatus>>

requestVars == <<wire, idCalls>>

vars == <<walkVars, docVars, credVars, pickVars, parseVars, clientVars, commandVars, requestVars>>

\* what the steps of one subsystem leave alone
notWalkVars == <<docVars, credVars, pickVars, parseVars, clientVars, commandVars, requestVars>>
notDocVars == <<walkVars, credVars, pickVars, parseVars, clientVars, commandVars, requestVars>>
notCredVars == <<walkVars, docVars, pickVars, parseVars, clientVars, commandVars, requestVars>>
notPickVars == <<walkVars, docVars, credVars, parseVars, clientVars, commandVars, requestVars>>
notParseVars == <<walkVars, docVars, credVars, pickVars, clientVars, commandVars, requestVars>>
notClientVars == <<walkVars, docVars, credVars, pickVars, parseVars, commandVars, requestVars>>
notCommandVars == <<walkVars, docVars, pickVars, parseVars, clientVars, requestVars>>
notRequestVars == <<walkVars, credVars, pickVars, parseVars, clientVars, commandVars>>

-----------------------------------------------------------------------------
(* JavaScript values *)

\* undefined, for values that are otherwise strings
Undefined == "<undefined>"

\* A JS number is modelled as a record so that NaN can be told from integers.
Num(v) == [nan |-> FALSE, val |-> v]
NaN == [nan |-> TRUE, val |-> 0]

\* a >= b for an integer a and a JS number b: every comparison with NaN is false
GE(a, b) == ~b.nan /\ a >= b.val

Digits == {"0", "1", "2", "3", "4", "5", "6", "7", "8", "9"}

DigitVal(c) ==
    CASE c = "0" -> 0 [] c = "1" -> 1 [] c = "2" -> 2 [] c = "3" -> 3
      [] c = "4" -> 4 [] c = "5" -> 5 [] c = "6" -> 6 [] c = "7" -> 7
      [] c = "8" -> 8 [] c = "9" -> 9

RECURSIVE SkipWhitespace(_)
SkipWhitespace(s) ==
    IF s # <<>> /\ Head(s) = " " THEN SkipWhitespace(Tail(s)) ELSE s

RECURSIVE DigitsValue(_, _)
DigitsValue(s, acc) ==
    IF s # <<>> /\ Head(s) \in Digits
    THEN DigitsValue(Tail(s), acc * 10 + DigitVal(Head(s)))
    ELSE acc

\* parseInt(s, 10) on a string given as a sequence of characters: leading
\* whitespace is skipped, a sign is accepted, the longest prefix of digits is
\* read and anything after it is ignored; without a digit the result is NaN.
parseInt(s) ==
    LET t == SkipWhitespace(s)
        signed == t # <<>> /\ Head(t) \in {"-", "+"}
        u == IF signed THEN Tail(t) ELSE t
    IN  IF u = <<>> \/ Head(u) \notin Digits
        THEN NaN
        ELSE Num((IF signed /\ Head(t) = "-" THEN -1 ELSE 1) * DigitsValue(u, 0))

-----------------------------------------------------------------------------
(* Pagination walk: bounds and inputs *)

\* page fetches after which the model stops following a walk
MaxFetches == 3
\* items a single page can carry
MaxPageItems == 2

FeedCommands == {"home", "likes", "saved"}
InlineCommands == {"search", "user-posts", "following", "followers", "replies"}
Commands == FeedCommands \cup InlineCommands \cup {"thread"}
\* commands that make one request before their walk starts
LookupCommands == {"following", "followers", "thread"}

\* --max-pages <n> as the user typed it (absent when given = FALSE)
NoMaxPages == [given |-> FALSE, text |-> <<>>]
MaxPagesTexts ==
    {<<>>, <<"0">>, <<"1">>, <<"2">>, <<"-", "1">>, <<"a", "b", "c">>, <<"2", "x">>}
MaxPagesOptions == {NoMaxPages} \cup {[given |-> TRUE, text |-> t] : t \in MaxPagesTexts}

StartCursors == {Undefined, "c0"}
NextCursors == {Undefined, "c1", "c2"}

\* truthiness of an optional string such as opts.maxPages
TruthyOption(o) == o.given /\ o.text # <<>>
\* truthiness of a string | undefined such as result.nextCursor
Truthy(s) == s # Undefined /\ s # ""

\* const maxPages = opts.maxPages ? parseInt(opts.maxPages, 10) : opts.all ? 100 : 1
ResolveMaxPages(opts) ==
    IF TruthyOption(opts.maxPages) THEN parseInt(opts.maxPages.text)
    ELSE IF opts.all THEN Num(100) ELSE Num(1)

\* What a page fetch (client.getHomeFeed, client.search, ...) can return to
\* the k-th fetch of a walk.  Items are tagged with the fetch that brought them.
PageItems(k, n) == [i \in 1..n |-> k]
PageResults(k) ==
    {[success |-> FALSE, posts |-> <<>>, nextCursor |-> Undefined, error |-> "e"]}
    \cup {[success |-> TRUE, posts |-> PageItems(k, n), nextCursor |-> c, error |-> ""] :
            n \in 0..MaxPageItems, c \in NextCursors}

NoPage == [success |-> TRUE, posts |-> <<>>, nextCursor |-> Undefined, error |-> "none"]
NoOutput == <<"<nothing>">>

-----------------------------------------------------------------------------
(* Pagination walk: the loop shared by fetchPaginatedFeed and the commands *)

\* if (!result.nextCursor || pageCount >= maxPages) break;
StopAfterPage_Exclusive(nextCursor, count, max) ==
    ~Truthy(nextCursor) \/ (~max.nan /\ count > max.val)
StopAfterPage(nextCursor, count, max) ==
    ~Truthy(nextCursor) \/ GE(count, max)

\* fetchPaginatedFeed's return value when a fetch failed: the failure when
\* nothing was accumulated, the accumulated posts as a success otherwise
FeedFailureReturn(acc) ==
    IF Len(acc) = 0 THEN [posts |-> <<>>, success |-> FALSE]
    ELSE [posts |-> acc, success |-> TRUE]

\* the feed commands' check of that return value: if (!success && posts.length === 0) process.exit(1)
FeedCallerExits(r) == ~r.success /\ Len(r.posts) = 0

\* Whether a failed page fetch ends the command with process.exit(1), given
\* what the walk has accumulated so far.  The thread command only warns.
AbortsOnFailure_Always(c, acc) == TRUE
AbortsOnFailure_Never(c, acc) == FALSE
AbortsOnFailure(c, acc) ==
    CASE c \in FeedCommands -> FeedCallerExits(FeedFailureReturn(acc))
      [] c \in InlineCommands -> Len(acc) = 0
      [] c = "thread" -> FALSE

\* the console.error line of a failed page fetch
FailureLine(c, result) ==
    IF c = "thread"
    THEN [level |-> "warn", text |-> <<"Failed to fetch some replies: ", result.error>>]
    ELSE [level |-> "err", text |-> <<result.error>>]

\* what the command prints after its walk: the accumulated items, preceded by
\* the original post (tag 0) in the thread command
Printed(c, acc) == IF c = "thread" THEN <<0>> \o acc ELSE acc

WalkInit ==
    /\ cmd \in Commands
    /\ cmdOpts \in [maxPages : MaxPagesOptions, all : BOOLEAN, cursor : StartCursors]
    /\ wpc = "start"
    /\ maxPages = NaN
    /\ cursor = Undefined
    /\ allPosts = <<>>
    /\ pageCount = 0
    /\ fetchLog = <<>>
    /\ lastPage = NoPage
    /\ stderr = <<>>
    /\ stdout = NoOutput
    /\ exitCode = "none"

\* the statements between client construction and the first page fetch
EnterWalk_NoStartCursor ==
    /\ maxPages' = ResolveMaxPages(cmdOpts)
    /\ cursor' = Undefined
    /\ allPosts' = <<>>
    /\ pageCount' = 0
    /\ wpc' = "walk"
EnterWalk ==
    /\ maxPages' = ResolveMaxPages(cmdOpts)
    /\ cursor' = cmdOpts.cursor
    /\ allPosts' = <<>>
    /\ pageCount' = 0
    /\ wpc' = "walk"

\* home, likes, saved, search, user-posts, replies: the walk starts at once
StartWalk ==
    /\ UNCHANGED notWalkVars
    /\ wpc = "start"
    /\ cmd \notin LookupCommands
    /\ EnterWalk
    /\ UNCHANGED <<cmd, cmdOpts, fetchLog, lastPage, stderr, stdout, exitCode>>

\* following, followers: getUserByUsername first; thread: getPost first.
\* A failed lookup prints the error and exits with 1.
LookupFails ==
    /\ UNCHANGED notWalkVars
    /\ wpc = "start"
    /\ cmd \in LookupCommands
    /\ stderr' = Append(stderr, [level |-> "err", text |-> <<"lookup failed">>])
    /\ exitCode' = "1"
    /\ wpc' = "done"
    /\ UNCHANGED <<cmd, cmdOpts, maxPages, cursor, allPosts, pageCount, fetchLog,
                   lastPage, stdout>>

LookupSucceeds ==
    /\ UNCHANGED notWalkVars
    /\ wpc = "start"
    /\ cmd \in LookupCommands
    /\ EnterWalk
    /\ UNCHANGED <<cmd, cmdOpts, fetchLog, lastPage, stderr, stdout, exitCode>>

\* One iteration of while (true) whose fetch fails.
FetchFails ==
    /\ UNCHANGED notWalkVars
    /\ wpc = "walk"
    /\ Len(fetchLog) < MaxFetches
    /\ \E result \in {r \in PageResults(Len(fetchLog) + 1) : ~r.success} :
         /\ fetchLog' = Append(fetchLog, cursor)
         /\ lastPage' = result
         /\ stderr' = Append(stderr, FailureLine(cmd, result))
         /\ IF AbortsOnFailure(cmd, allPosts)
            THEN /\ exitCode' = "1"
                 /\ stdout' = stdout
            ELSE /\ exitCode' = "0"
                 /\ stdout' = Printed(cmd, allPosts)
         /\ wpc' = "done"
         /\ UNCHANGED <<cmd, cmdOpts, maxPages, cursor, allPosts, pageCount>>

\* One iteration of while (true) whose fetch succeeds.
FetchSucceeds ==
    /\ UNCHANGED notWalkVars
    /\ wpc = "walk"
    /\ Len(fetchLog) < MaxFetches
    /\ \E result \in {r \in PageResults(Len(fetchLog) + 1) : r.success} :
         /\ fetchLog' = Append(fetchLog, cursor)
         /\ lastPage' = result
         /\ allPosts' = allPosts \o result.posts
         /\ pageCount' = pageCount + 1
         /\ IF StopAfterPage(result.nextCursor, pageCount + 1, maxPages)
            THEN /\ cursor' = cursor
                 /\ exitCode' = "0"
                 /\ stdout' = Printed(cmd, allPosts \o result.posts)
                 /\ wpc' = "done"
            ELSE /\ cursor' = result.nextCursor
                 /\ UNCHANGED <<exitCode, stdout, wpc>>
         /\ UNCHANGED <<cmd, cmdOpts, maxPages, stderr>>

WalkNext == StartWalk \/ LookupFails \/ LookupSucceeds \/ FetchFails \/ FetchSucceeds

-----------------------------------------------------------------------------
(* Pagination walk: claims *)

\* the items that the first page fetch of the walk brought
PageOneItems == SelectSeq(allPosts, LAMBDA t : t = 1)

\* the walk ended in its second fetch, which failed (so the first succeeded)
SecondFetchFailed ==
    wpc = "done" /\ Len(fetchLog) = 2 /\ ~lastPage.success

\* the walk ended with what it had, the error printed, and no failure exit
EndsWithPartialResult ==
    /\ exitCode = "0"
    /\ stdout = Printed(cmd, allPosts)
    /\ allPosts = PageOneItems
    /\ stderr # <<>>
    /\ stderr[Len(stderr)] = FailureLine(cmd, lastPage)

\* C1 as stated: in fetchPaginatedFeed and in the loops of search, user-posts,
\* following, followers and replies, a walk whose page 1 succeeds and whose
\* page 2 fails ends with page 1's items plus a warning and without a failure,
\* whatever number of items page 1 carried.
C1_AnyFirstPage ==
    (SecondFetchFailed /\ cmd # "thread") => EndsWithPartialResult

\* C1 as amended: the same, for a page 1 that carried at least one item; when
\* page 1 carried none, the failure of page 2 ends the command with exit 1 and
\* without output.
C1_NonEmptyFirstPage ==
    (SecondFetchFailed /\ cmd # "thread") =>
        IF Len(allPosts) > 0
        THEN EndsWithPartialResult
        ELSE exitCode = "1" /\ stdout = NoOutput

C1_Witness ==
    /\ SecondFetchFailed
    /\ cmd = "search"
    /\ Len(allPosts) = 2
    /\ exitCode = "0"

\* C2: a walk with maxPages = 1 issues exactly one page fetch, whether or not
\* the page returned a cursor and whether or not a starting cursor was given:
\* no fetch before the walk's first iteration, one fetch at its end.
C2_OneFetch ==
    (maxPages = Num(1) /\ wpc \in {"walk", "done"}) =>
        Len(fetchLog) = (IF wpc = "done" THEN 1 ELSE 0)

C2_Witness ==
    /\ maxPages = Num(1)
    /\ wpc = "done"
    /\ cmdOpts.cursor # Undefined
    /\ lastPage.success
    /\ Truthy(lastPage.nextCursor)
    /\ Len(fetchLog) = 1

\* C3 as stated: the number of page fetches of a walk is bounded by its page
\* budget, the parsed --max-pages value (100 under --all, 1 by default), for
\* every --max-pages string and every server behaviour.
C3_BoundedByBudget ==
    Len(fetchLog) > 0 => (~maxPages.nan /\ Len(fetchLog) <= maxPages.val)

\* C4 as stated: in every paginated command, the thread command included, a
\* page fetch that fails while zero items are accumulated is the only outcome:
\* the command exits with a failure and outputs no result.
FailedWithNothing ==
    wpc = "done" /\ Len(fetchLog) > 0 /\ ~lastPage.success /\ Len(allPosts) = 0

C4_FailureOnly ==
    FailedWithNothing => (exitCode = "1" /\ stdout = NoOutput)

\* C4 as amended: that holds in every paginated command except thread; the
\* thread command reports the failed replies fetch as a warning and still
\* outputs the original post, with no replies.
C4_FailureOnlyOutsideThread ==
    FailedWithNothing =>
        IF cmd = "thread"
        THEN /\ exitCode = "0"
             /\ stdout = <<0>>
             /\ stderr[Len(stderr)].level = "warn"
        ELSE /\ exitCode = "1"
             /\ stdout = NoOutput
             /\ stderr[Len(stderr)].level = "err"

C4_Witness ==
    /\ FailedWithNothing
    /\ cmd = "followers"
    /\ Len(fetchLog) = 2
    /\ exitCode = "1"

\* a step that issues a page fetch
IssuesFetch == Len(fetchLog') = Len(fetchLog) + 1

\* the cursor that the fetch of such a step was issued with
IssuedCursor == fetchLog'[Len(fetchLog')]

\* a later fetch follows a successful fetch whose response has been taken
\* in, and carries the cursor which that fetch returned
FollowsPreviousPage ==
    Len(fetchLog) > 0 =>
        /\ lastPage.success
        /\ pageCount = Len(fetchLog)
        /\ Truthy(lastPage.nextCursor)
        /\ IssuedCursor = lastPage.nextCursor

\* C23 as stated: the first fetch of every walk is issued with no cursor, and
\* each later fetch with exactly the cursor that the preceding successful
\* fetch returned, after that fetch's response has been taken in.
C23_CursorChain ==
    [][IssuesFetch =>
          /\ Len(fetchLog) = 0 => IssuedCursor = Undefined
          /\ FollowsPreviousPage]_vars

\* C23 as amended: the first fetch is issued with the value of --cursor, that
\* is with no cursor only when the option is not given; the later fetches are
\* as stated.
C23_CursorChainFromOption ==
    [][IssuesFetch =>
          /\ Len(fetchLog) = 0 => IssuedCursor = cmdOpts.cursor
          /\ FollowsPreviousPage]_vars

C23_Witness ==
    /\ wpc = "done"
    /\ cmd = "replies"
    /\ cmdOpts.cursor = "c0"
    /\ fetchLog = <<"c0", "c1", "c2">>
    /\ lastPage.success

-----------------------------------------------------------------------------
(* doc_id cache: constants and data *)

HourMs == 60 * 60 * 1000
CACHE_MAX_AGE_MS == 24 * 60 * 60 * 1000

\* the keys of interface DocIds
DocIdKeys ==
    {"userByUsername", "userData", "threadDetail", "threadReplies", "homeTimeline",
     "userThreads", "likedThreads", "savedThreads", "followers", "following",
     "searchThreads"}

FALLBACK_DOC_IDS ==
    [userByUsername |-> "23996318473300828",
     userData |-> "9360915773983802",
     threadDetail |-> "6529829603744567",
     threadReplies |-> "6684830921547925",
     homeTimeline |-> "7846151975432989",
     userThreads |-> "6232751443445612",
     likedThreads |-> "9360047727362754",
     savedThreads |-> "6354918684616234",
     followers |-> "7707543692631249",
     following |-> "7050524464970894",
     searchThreads |-> "6529829603744567"]

\* const queryMappings, in Object.entries order
queryMappings ==
    << <<"BarcelonaProfileRootQuery", "userByUsername">>,
       <<"BarcelonaProfileThreadsTabQuery", "userThreads">>,
       <<"BarcelonaProfileRepliesTabQuery", "threadReplies">>,
       <<"BarcelonaPostPageQuery", "threadDetail">>,
       <<"BarcelonaFeedTimelineQuery", "homeTimeline">>,
       <<"BarcelonaSearchResultsQuery", "searchThreads">> >>

\* the number of characters of a query name
NameLen(q) ==
    CASE q = "BarcelonaProfileRootQuery" -> 25
      [] q = "BarcelonaProfileThreadsTabQuery" -> 31
      [] q = "BarcelonaProfileRepliesTabQuery" -> 31
      [] q = "BarcelonaPostPageQuery" -> 22
      [] q = "BarcelonaFeedTimelineQuery" -> 26
      [] q = "BarcelonaSearchResultsQuery" -> 27

\* an empty Partial<DocIds>
EmptyDocIds == [k \in {} |-> ""]

\* obj[key] is set to a truthy value
Has(m, k) == k \in DOMAIN m /\ m[k] # ""

\* obj[key] = value
Put(m, k, v) == [x \in DOMAIN m \cup {k} |-> IF x = k THEN v ELSE m[x]]

-----------------------------------------------------------------------------
(* doc_id cache: searching one script bundle *)

\* A bundle is modelled by the occurrences in it that the two searches look
\* at: query names and doc_id / queryId markers followed by 15 to 20 digits,
\* each with the offset at which it starts, in increasing offset order.
NameAt(q, at) == [kind |-> "name", val |-> q, at |-> at]
IdAt(d, at) == [kind |-> "id", val |-> d, at |-> at]

\* the offsets j of the markers that the pattern
\*   queryName[\s\S]{0,500}(?:doc_id|queryId)...(\d{15,20})
\* can reach from the name occurrence i
ForwardReach(body, i) ==
    {j \in 1..Len(body) :
        /\ body[j].kind = "id"
        /\ body[j].at - (body[i].at + NameLen(body[i].val)) >= 0
        /\ body[j].at - (body[i].at + NameLen(body[i].val)) <= 500}

\* scriptContent.match(pattern): the leftmost occurrence of the name from
\* which a marker is reached, and, the gap being greedy, the last marker that
\* it reaches.  Undefined when there is no match.
ForwardMatch(body, q) ==
    LET starts == {i \in 1..Len(body) :
                      body[i].kind = "name" /\ body[i].val = q
                      /\ ForwardReach(body, i) # {}}
    IN  IF starts = {} THEN Undefined
        ELSE LET i == CHOOSE x \in starts : \A y \in starts : x <= y
                 j == CHOOSE x \in ForwardReach(body, i) :
                          \A y \in ForwardReach(body, i) : y <= x
             IN  body[j].val

\* for (const [queryName, docIdKey] of Object.entries(queryMappings)) { ... }
\* of the first search: a match is stored whether or not the key is set
RECURSIVE ForwardPass(_, _, _)
ForwardPass(docIds, body, n) ==
    IF n > Len(queryMappings) THEN docIds
    ELSE LET m == ForwardMatch(body, queryMappings[n][1])
         IN  ForwardPass(IF m # Undefined THEN Put(docIds, queryMappings[n][2], m)
                         ELSE docIds,
                         body, n + 1)

\* context.includes(queryName) for the marker occurrence j:
\* context = scriptContent.slice(Math.max(0, idx - 200), idx + 200)
InContext(body, j, q) ==
    LET lo == IF body[j].at - 200 > 0 THEN body[j].at - 200 ELSE 0
        hi == body[j].at + 200
    IN  \E i \in 1..Len(body) :
            /\ body[i].kind = "name" /\ body[i].val = q
            /\ body[i].at >= lo
            /\ body[i].at + NameLen(q) <= hi

\* the inner loop of the second search, for one marker occurrence
RECURSIVE ReverseOne(_, _, _, _)
ReverseOne(docIds, body, j, n) ==
    IF n > Len(queryMappings) THEN docIds
    ELSE ReverseOne(IF InContext(body, j, queryMappings[n][1])
                       /\ ~Has(docIds, queryMappings[n][2])
                    THEN Put(docIds, queryMappings[n][2], body[j].val)
                    ELSE docIds,
                    body, j, n + 1)

\* for (const match of docIdMatches) { ... }
RECURSIVE ReversePass(_, _, _)
ReversePass(docIds, body, j) ==
    IF j > Len(body) THEN docIds
    ELSE ReversePass(IF body[j].kind = "id" THEN ReverseOne(docIds, body, j, 1)
                     ELSE docIds,
                     body, j + 1)

\* the body of the try block for one fetched bundle
ScanScript(docIds, body) == ReversePass(ForwardPass(docIds, body, 1), body, 1)

-----------------------------------------------------------------------------
(* doc_id cache: the cache file *)

\* script URLs of a landing page that the model follows
MaxScripts == 2
\* getDocIds calls of a run
MaxCalls == 2
\* clock steps of a run
MaxTicks == 2

\* scriptUrls = ....slice(0, 10)
SCRIPT_LIMIT == 10

Procs == {1, 2}

\* What the cache file holds: nothing (kind absent), text that JSON.parse
\* rejects (garbage), the JSON value null, or a JSON object.  The fields of an
\* object that are not there are hasDocIds = FALSE, timestamp = NaN (an
\* undefined timestamp makes Date.now() - cached.timestamp NaN) and
\* lsdToken = Undefined.
FileOf(kind) ==
    [kind |-> kind, hasDocIds |-> FALSE, docIds |-> EmptyDocIds,
     timestamp |-> NaN, lsdToken |-> Undefined]
AbsentFile == FileOf("absent")
GarbageFile == FileOf("garbage")
NullFile == FileOf("null")

\* JSON.stringify({ docIds, timestamp, lsdToken }) as read back by JSON.parse:
\* an undefined lsdToken is left out of the text and is undefined again
RecordFile(docIds, timestamp, lsdToken) ==
    [kind |-> "record", hasDocIds |-> TRUE, docIds |-> docIds,
     timestamp |-> timestamp, lsdToken |-> lsdToken]

\* the clock at the start of a run
Epoch0 == 48 * HourMs
TickSteps == {HourMs, 23 * HourMs}

\* the maps that a record found on disk can hold: the fallback table, a table
\* with an identifier found earlier, a table with a single key, no keys
DiskMaps ==
    {FALLBACK_DOC_IDS,
     Put(FALLBACK_DOC_IDS, "userByUsername", "1000000000000009"),
     Put(EmptyDocIds, "userByUsername", "1000000000000009"),
     EmptyDocIds}

\* the ages, at the start of a run, of a record found on disk
DiskAges == {HourMs, CACHE_MAX_AGE_MS - 1, CACHE_MAX_AGE_MS, 25 * HourMs, 0 - HourMs}

DiskFiles ==
    {AbsentFile, GarbageFile, NullFile}
    \cup {RecordFile(m, Num(Epoch0 - a), l) :
            m \in DiskMaps, a \in DiskAges, l \in {Undefined, "lsd0"}}
    \cup {RecordFile(m, NaN, Undefined) : m \in DiskMaps}
    \cup {[RecordFile(EmptyDocIds, Num(Epoch0 - a), Undefined) EXCEPT !.hasDocIds = FALSE] :
            a \in DiskAges}

\* loadCachedDocIds: readFile and JSON.parse throw for an absent file and for
\* garbage, cached.timestamp throws for null, and the catch block swallows
\* all three; a record is returned when Date.now() - cached.timestamp is below
\* CACHE_MAX_AGE_MS.  hit = FALSE stands for the return value null.
loadCachedDocIds_Inclusive(f, t) ==
    [hit |-> f.kind = "record" /\ ~f.timestamp.nan
               /\ t - f.timestamp.val <= CACHE_MAX_AGE_MS,
     cached |-> f]
loadCachedDocIds(f, t) ==
    [hit |-> f.kind = "record" /\ ~f.timestamp.nan
               /\ t - f.timestamp.val < CACHE_MAX_AGE_MS,
     cached |-> f]

\* What mkdir and writeFile can do: succeed, fail before the file is touched,
\* or fail after writeFile has truncated or partly written the file.
SaveOutcomes == {"ok", "mkdir-failed", "write-failed", "write-failed-truncated"}

\* saveCachedDocIds: the new content of the file and whether an exception
\* leaves the function (the try block catches every failure)
saveCachedDocIds_NoCatch(f, docIds, lsdToken, t, outcome) ==
    [file |-> CASE outcome = "ok" -> RecordFile(docIds, Num(t), lsdToken)
                [] outcome = "write-failed-truncated" -> GarbageFile
                [] OTHER -> f,
     threw |-> outcome # "ok"]
saveCachedDocIds(f, docIds, lsdToken, t, outcome) ==
    [file |-> CASE outcome = "ok" -> RecordFile(docIds, Num(t), lsdToken)
                [] outcome = "write-failed-truncated" -> GarbageFile
                [] OTHER -> f,
     threw |-> FALSE]

\* const merged = { ...FALLBACK_DOC_IDS }; for (...) if (value) merged[key] = value
MergeWithFallback_FallbackOnly(extracted) ==
    [k \in DocIdKeys |-> FALLBACK_DOC_IDS[k]]
MergeWithFallback(extracted) ==
    [k \in DocIdKeys |-> IF Has(extracted, k) THEN extracted[k] ELSE FALLBACK_DOC_IDS[k]]

\* the bundles that a script URL can deliver
ScriptBodies ==
    { << NameAt("BarcelonaProfileRootQuery", 0), IdAt("1000000000000001", 40) >>,
      << IdAt("1000000000000002", 0), NameAt("BarcelonaProfileRootQuery", 60) >>,
      << NameAt("BarcelonaPostPageQuery", 0), IdAt("1000000000000003", 100),
         IdAt("1000000000000004", 400) >>,
      << NameAt("BarcelonaProfileRootQuery", 0), IdAt("1000000000000005", 900) >>,
      << >> }

\* the landing pages: an LSD token or none, and a number of script URLs
LandingPages == [lsdToken : {Undefined, "lsd1"}, scripts : 0..MaxScripts]

Min(a, b) == IF a < b THEN a ELSE b

-----------------------------------------------------------------------------
(* doc_id cache: getDocIds, one step per await *)

NoResult ==
    [threw |-> FALSE, hasDocIds |-> FALSE, docIds |-> EmptyDocIds, lsdToken |-> Undefined]

\* the state of a process that has not called getDocIds
IdleCall ==
    [pc |-> "idle", forceRefresh |-> FALSE,
     seenFile |-> AbsentFile, seenNow |-> 0, hit |-> FALSE,
     extracted |-> EmptyDocIds, lsdToken |-> Undefined, scriptsLeft |-> 0,
     merged |-> EmptyDocIds, savedAt |-> NaN, events |-> {}, result |-> NoResult]

DocInit ==
    /\ file \in DiskFiles
    /\ now = Epoch0
    /\ inv = [p \in Procs |-> IdleCall]
    /\ calls = 0
    /\ ticks = 0

\* the statements that follow extractDocIdsFromWeb's return, up to the first
\* await of saveCachedDocIds
AfterExtract_SkipEmpty(c) ==
    IF c.extracted = EmptyDocIds
    THEN [c EXCEPT !.pc = "returned", !.merged = FALLBACK_DOC_IDS,
                   !.result = [threw |-> FALSE, hasDocIds |-> TRUE,
                               docIds |-> FALLBACK_DOC_IDS, lsdToken |-> c.lsdToken]]
    ELSE [c EXCEPT !.pc = "save", !.merged = MergeWithFallback(c.extracted)]
AfterExtract(c) ==
    [c EXCEPT !.pc = "save", !.merged = MergeWithFallback(c.extracted)]

\* the end of one iteration of for (const url of scriptUrls)
NextScript(c) ==
    IF c.scriptsLeft > 1
    THEN [c EXCEPT !.scriptsLeft = c.scriptsLeft - 1]
    ELSE AfterExtract([c EXCEPT !.scriptsLeft = 0])

\* getDocIds(forceRefresh) is called
Call(p) ==
    /\ UNCHANGED notDocVars
    /\ inv[p].pc \in {"idle", "returned"}
    /\ calls < MaxCalls
    /\ \E force \in BOOLEAN :
         inv' = [inv EXCEPT ![p] =
                    [IdleCall EXCEPT !.forceRefresh = force,
                                     !.pc = IF force THEN "landing" ELSE "load"]]
    /\ calls' = calls + 1
    /\ UNCHANGED <<file, now, ticks>>

\* await loadCachedDocIds(), and the return of the cached record if it is fresh
LoadCache(p) ==
    /\ UNCHANGED notDocVars
    /\ inv[p].pc = "load"
    /\ LET r == loadCachedDocIds(file, now)
           c == [inv[p] EXCEPT !.seenFile = file, !.seenNow = now, !.hit = r.hit]
       IN  inv' = [inv EXCEPT ![p] =
                      IF r.hit
                      THEN [c EXCEPT !.pc = "returned",
                                     !.result = [threw |-> FALSE,
                                                 hasDocIds |-> r.cached.hasDocIds,
                                                 docIds |-> r.cached.docIds,
                                                 lsdToken |-> r.cached.lsdToken]]
                      ELSE [c EXCEPT !.pc = "landing"]]
    /\ UNCHANGED <<file, now, calls, ticks>>

\* fetch('https://www.threads.com/') rejects, answers with a status that is
\* not ok, or its body cannot be read: the outer catch returns { docIds: {} }
LandingFails(p) ==
    /\ UNCHANGED notDocVars
    /\ inv[p].pc = "landing"
    /\ inv' = [inv EXCEPT ![p] =
                  AfterExtract([inv[p] EXCEPT
                      !.extracted = EmptyDocIds,
                      !.lsdToken = Undefined,
                      !.events = inv[p].events \cup {"discovery", "landing-failed"}])]
    /\ UNCHANGED <<file, now, calls, ticks>>

\* the landing page is fetched: LSD token and script URLs are extracted
LandingOk(p) ==
    /\ UNCHANGED notDocVars
    /\ inv[p].pc = "landing"
    /\ \E page \in LandingPages :
         LET c == [inv[p] EXCEPT
                      !.extracted = EmptyDocIds,
                      !.lsdToken = page.lsdToken,
                      !.scriptsLeft = Min(page.scripts, SCRIPT_LIMIT),
                      !.events = inv[p].events \cup {"discovery"}]
         IN  inv' = [inv EXCEPT ![p] =
                        IF c.scriptsLeft = 0 THEN AfterExtract(c)
                        ELSE [c EXCEPT !.pc = "scripts"]]
    /\ UNCHANGED <<file, now, calls, ticks>>

\* the fetch of a script rejects or is not ok: the bundle is skipped
ScriptFails(p) ==
    /\ UNCHANGED notDocVars
    /\ inv[p].pc = "scripts"
    /\ inv' = [inv EXCEPT ![p] =
                  NextScript([inv[p] EXCEPT
                      !.events = inv[p].events \cup {"script-failed"}])]
    /\ UNCHANGED <<file, now, calls, ticks>>

\* a script is fetched and searched
ScriptOk(p) ==
    /\ UNCHANGED notDocVars
    /\ inv[p].pc = "scripts"
    /\ \E body \in ScriptBodies :
         inv' = [inv EXCEPT ![p] =
                    NextScript([inv[p] EXCEPT
                        !.extracted = ScanScript(inv[p].extracted, body)])]
    /\ UNCHANGED <<file, now, calls, ticks>>

\* await saveCachedDocIds(merged, lsdToken), and the return of the merged map
Save(p) ==
    /\ UNCHANGED notDocVars
    /\ inv[p].pc = "save"
    /\ \E outcome \in SaveOutcomes :
         LET c == inv[p]
             w == saveCachedDocIds(file, c.merged, c.lsdToken, now, outcome)
         IN  /\ file' = w.file
             /\ inv' = [inv EXCEPT ![p] =
                          [c EXCEPT
                              !.pc = "returned",
                              !.savedAt = Num(now),
                              !.events = c.events \cup
                                  (IF outcome = "ok" THEN {"save", "written"}
                                   ELSE {"save", "write-failed"}),
                              !.result =
                                  IF w.threw
                                  THEN [NoResult EXCEPT !.threw = TRUE]
                                  ELSE [threw |-> FALSE, hasDocIds |-> TRUE,
                                        docIds |-> c.merged, lsdToken |-> c.lsdToken]]]
    /\ UNCHANGED <<now, calls, ticks>>

\* time passes
Tick ==
    /\ UNCHANGED notDocVars
    /\ ticks < MaxTicks
    /\ \E step \in TickSteps : now' = now + step
    /\ ticks' = ticks + 1
    /\ UNCHANGED <<file, inv, calls>>

\* one CLI process at a time
DocNext ==
    \/ Call(1) \/ LoadCache(1) \/ LandingFails(1) \/ LandingOk(1)
    \/ ScriptFails(1) \/ ScriptOk(1) \/ Save(1) \/ Tick

\* clearDocIdCache, called while no getDocIds call is under way: unlink
\* removes the file, or fails (no file, no permission) and the catch block
\* swallows the error
clearDocIdCache ==
    /\ UNCHANGED notDocVars
    /\ inv[1].pc \in {"idle", "returned"}
    /\ \E unlinked \in BOOLEAN :
         file' = IF unlinked /\ file.kind # "absent" THEN AbsentFile ELSE file
    /\ UNCHANGED <<now, inv, calls, ticks>>

\* one CLI process at a time, and calls of clearDocIdCache between its calls
ClearNext == DocNext \/ clearDocIdCache

-----------------------------------------------------------------------------
(* doc_id cache: two CLI processes on the same file *)

\* writeFile opens the file with flag 'w', which empties it, and writes the
\* text afterwards: in between, the file holds no bytes
TruncatedFile == FileOf("truncated")

\* The length of JSON.stringify(cached, null, 2), less what all the records
\* that saveCachedDocIds writes have in common: an identifier is 16 digits
\* long except the fallback value of userByUsername, which has 17, and the
\* lsdToken line is there only when a token was found.
TextSize(docIds, lsdToken) ==
    Cardinality({k \in DOMAIN docIds : docIds[k] = "23996318473300828"})
        + (IF lsdToken = Undefined THEN 0 ELSE 20)

\* saveCachedDocIds up to the open of writeFile: mkdir, the record with
\* timestamp Date.now(), and the truncation of the file
OpenForWrite(p) ==
    /\ UNCHANGED notDocVars
    /\ inv[p].pc = "save"
    /\ file' = TruncatedFile
    /\ inv' = [inv EXCEPT ![p] =
                  [inv[p] EXCEPT !.pc = "write",
                                 !.savedAt = Num(now),
                                 !.events = inv[p].events \cup {"save"}]]
    /\ UNCHANGED <<now, calls, ticks>>

\* The write of writeFile, at offset 0 of the file that was opened, and the
\* return of the merged map.  Bytes that another process has written since
\* the truncation stay in the file beyond the end of this text.
WriteText(p) ==
    /\ UNCHANGED notDocVars
    /\ inv[p].pc = "write"
    /\ LET c == inv[p]
           mine == RecordFile(c.merged, c.savedAt, c.lsdToken)
       IN  /\ \/ /\ file.kind = "truncated"
                 /\ file' = mine
              \/ /\ file.kind = "record"
                 /\ file' = IF TextSize(file.docIds, file.lsdToken)
                                 > TextSize(c.merged, c.lsdToken)
                            THEN GarbageFile ELSE mine
              \/ /\ file.kind = "garbage"
                 /\ file' \in {mine, GarbageFile}
           /\ inv' = [inv EXCEPT ![p] =
                        [c EXCEPT
                            !.pc = "returned",
                            !.events = c.events \cup {"written"},
                            !.result = [threw |-> FALSE, hasDocIds |-> TRUE,
                                        docIds |-> c.merged, lsdToken |-> c.lsdToken]]]
    /\ UNCHANGED <<now, calls, ticks>>

\* two CLI processes, each step of either in any order
RaceNext ==
    \/ Call(1) \/ LoadCache(1) \/ LandingFails(1) \/ LandingOk(1)
    \/ ScriptFails(1) \/ ScriptOk(1) \/ OpenForWrite(1) \/ WriteText(1)
    \/ Call(2) \/ LoadCache(2) \/ LandingFails(2) \/ LandingOk(2)
    \/ ScriptFails(2) \/ ScriptOk(2) \/ OpenForWrite(2) \/ WriteText(2)

-----------------------------------------------------------------------------
(* doc_id cache: claims *)

\* C5 as stated: every map that getDocIds returns binds each of the 11 logical
\* query names, whatever the cache file holds.
C5_AlwaysComplete ==
    \A p \in Procs :
        inv[p].pc = "returned" =>
            /\ ~inv[p].result.threw
            /\ inv[p].result.hasDocIds
            /\ DOMAIN inv[p].result.docIds = DocIdKeys

\* the record that a call read is a JSON object whose timestamp is less than
\* 24 hours before the time of the read
ReadFreshRecord(c) ==
    /\ c.seenFile.kind = "record"
    /\ ~c.seenFile.timestamp.nan
    /\ c.seenNow - c.seenFile.timestamp.val < 24 * HourMs

\* C6: a getDocIds(false) call treats the record it reads as fresh exactly when
\* its age is below 24 hours.  A fresh record is returned as it is, without
\* discovery and without a write, and the file is left as it was.  Any other
\* content triggers discovery followed by saveCachedDocIds with the time of
\* the save as timestamp, which the file holds unless the write failed.
C6_FreshBelow24h ==
    \A p \in Procs :
        LET c == inv[p] IN
        (c.pc = "returned" /\ ~c.forceRefresh) =>
            IF ReadFreshRecord(c)
            THEN /\ c.hit
                 /\ c.result.hasDocIds = c.seenFile.hasDocIds
                 /\ c.result.docIds = c.seenFile.docIds
                 /\ c.result.lsdToken = c.seenFile.lsdToken
                 /\ c.events = {}
                 /\ file = c.seenFile
            ELSE /\ ~c.hit
                 /\ {"discovery", "save"} \subseteq c.events
                 /\ ~c.savedAt.nan
                 /\ c.savedAt.val >= c.seenNow
                 /\ c.savedAt.val <= now
                 /\ "written" \in c.events =>
                        file = RecordFile(c.result.docIds, c.savedAt, c.result.lsdToken)

C6_Witness ==
    /\ inv[1].pc = "returned"
    /\ ~inv[1].forceRefresh
    /\ inv[1].seenFile.kind = "record"
    /\ ~inv[1].seenFile.timestamp.nan
    /\ inv[1].seenNow - inv[1].seenFile.timestamp.val = 25 * HourMs
    /\ "written" \in inv[1].events
    /\ file.timestamp = Num(now)
    /\ calls = 2

\* C7: getDocIds never throws: after a failed landing-page fetch, a failed
\* script fetch or a failed write of the cache file, a refreshing call returns
\* the map made of what was discovered, completed from the fallback table.
C7_NeverThrows ==
    \A p \in Procs :
        LET c == inv[p] IN
        c.pc = "returned" =>
            /\ ~c.result.threw
            /\ "discovery" \in c.events =>
                  /\ c.result.hasDocIds
                  /\ c.result.lsdToken = c.lsdToken
                  /\ DOMAIN c.result.docIds = DocIdKeys
                  /\ \A k \in DocIdKeys :
                        c.result.docIds[k] =
                            IF k \in DOMAIN c.extracted THEN c.extracted[k]
                            ELSE FALLBACK_DOC_IDS[k]
            /\ "landing-failed" \in c.events => c.result.docIds = FALLBACK_DOC_IDS

C7_Witness ==
    /\ inv[1].pc = "returned"
    /\ {"script-failed", "write-failed"} \subseteq inv[1].events
    /\ inv[1].extracted # EmptyDocIds
    /\ inv[1].result.docIds # FALLBACK_DOC_IDS
    /\ file.kind = "garbage"

\* both processes have called getDocIds and both calls have returned
BothReturned == \A p \in Procs : inv[p].pc = "returned"

\* the file holds the record that the call of process p wrote
HoldsRecordOf(p) ==
    /\ "written" \in inv[p].events
    /\ file = RecordFile(inv[p].merged, inv[p].savedAt, inv[p].lsdToken)

\* every call that has returned gave a map with the 11 keys
C28_EachComplete ==
    \A p \in Procs :
        inv[p].pc = "returned" =>
            /\ ~inv[p].result.threw
            /\ inv[p].result.hasDocIds
            /\ DOMAIN inv[p].result.docIds = DocIdKeys

\* once both calls have returned, and one of them wrote, the file holds the
\* record of one of them
C28_FileWhole ==
    (BothReturned /\ \E p \in Procs : "written" \in inv[p].events) =>
        \E p \in Procs : HoldsRecordOf(p)

\* C28 as stated: when two processes run getDocIds on the same cache file,
\* under every interleaving of their reads, discoveries and writes each call
\* returns a map with all 11 keys, and once both have returned the file holds
\* the complete record written by one of them.
C28_RaceSafe == C28_EachComplete /\ C28_FileWhole

\* the file holds a record with the pure fallback table that is less than 24
\* hours old
FreshFallbackRecord ==
    /\ file.kind = "record"
    /\ file.hasDocIds
    /\ file.docIds = FALLBACK_DOC_IDS
    /\ ~file.timestamp.nan
    /\ now - file.timestamp.val < 24 * HourMs

\* this step is the return of a refresh of process p that found no identifier
ReturnsEmptyHanded(p) ==
    /\ inv[p].pc # "returned"
    /\ inv'[p].pc = "returned"
    /\ "discovery" \in inv'[p].events
    /\ ~\E k \in DOMAIN inv'[p].extracted : Has(inv'[p].extracted, k)

\* this step is the read of the cache file by a call without forceRefresh
ReadsCache(p) ==
    /\ inv[p].pc = "load"
    /\ inv'[p].pc # "load"

\* C29: a refresh that finds no identifier returns the fallback table after
\* saveCachedDocIds has written it with the time of the write as timestamp
\* (unless the write failed); a call without forceRefresh that reads such a
\* record within 24 hours returns the fallback table without discovery and
\* without a write; and while such a record is fresh only the save of a call
\* with forceRefresh or clearDocIdCache changes the file.
C29_FallbackCached ==
    [][/\ \A p \in Procs :
            ReturnsEmptyHanded(p) =>
                /\ "save" \in inv'[p].events
                /\ inv'[p].result.docIds = FALLBACK_DOC_IDS
                /\ "written" \in inv'[p].events =>
                      file' = RecordFile(FALLBACK_DOC_IDS, Num(now), inv'[p].lsdToken)
       /\ \A p \in Procs :
            (ReadsCache(p) /\ FreshFallbackRecord) =>
                /\ inv'[p].pc = "returned"
                /\ inv'[p].result.docIds = FALLBACK_DOC_IDS
                /\ inv'[p].events = {}
                /\ file' = file
       /\ (FreshFallbackRecord /\ file' # file) =>
            \/ \E p \in Procs : inv[p].pc = "save" /\ inv[p].forceRefresh
            \/ file' = AbsentFile /\ inv' = inv]_vars

\* a call without forceRefresh has returned the fallback table from a record
\* that an earlier refresh of the run wrote 23 hours before
C29_Witness ==
    /\ calls = 2
    /\ inv[1].pc = "returned"
    /\ ~inv[1].forceRefresh
    /\ inv[1].hit
    /\ inv[1].result.docIds = FALLBACK_DOC_IDS
    /\ inv[1].seenFile.timestamp = Num(Epoch0)
    /\ inv[1].seenNow = Epoch0 + 23 * HourMs

\* the call of process p has returned after a refresh: discovery ran, because
\* the record was stale or absent or because the refresh was forced
Refreshed(p) == inv[p].pc = "returned" /\ "discovery" \in inv[p].events

\* the identifier that discovery produced for a query name, "" if none
Discovered(c, k) == IF k \in DOMAIN c.extracted THEN c.extracted[k] ELSE ""

\* C26: after a refresh the returned map holds, for each of the 11 query
\* names, the discovered identifier when discovery produced a non-empty one
\* and the fallback value otherwise; the record written to the cache file
\* holds that same map, with the time of the save as its timestamp.
C26_MergedAndPersisted ==
    \A p \in Procs :
        LET c == inv[p] IN
        Refreshed(p) =>
            /\ DOMAIN c.result.docIds = DocIdKeys
            /\ \A k \in DocIdKeys :
                  c.result.docIds[k] =
                      IF Discovered(c, k) # "" THEN Discovered(c, k)
                      ELSE FALLBACK_DOC_IDS[k]
            /\ "written" \in c.events =>
                  /\ file.kind = "record"
                  /\ file.docIds = c.result.docIds
                  /\ file.timestamp = c.savedAt
                  /\ c.savedAt.val <= now
                  /\ c.savedAt.val >= c.seenNow

\* a forced refresh found an identifier for one query name and wrote it,
\* with the fallback values of the others, to the cache file
C26_Witness ==
    /\ Refreshed(1)
    /\ inv[1].forceRefresh
    /\ "written" \in inv[1].events
    /\ file.docIds["userByUsername"] = "1000000000000001"
    /\ file.docIds["userData"] = FALLBACK_DOC_IDS["userData"]
    /\ file.timestamp = Num(now)

\* a step of process p that searches one more bundle of the same discovery
SearchesBundle(p) == inv[p].pc = "scripts" /\ inv'[p] # inv[p]

\* C27: during discovery the identifier kept for a query name is the first
\* one found, in bundle order: an identifier found in an earlier bundle is
\* never replaced by a match in a later bundle.
C27_FirstMatchWins ==
    [][\A p \in Procs :
          SearchesBundle(p) =>
              \A k \in DOMAIN inv[p].extracted :
                  Has(inv[p].extracted, k) =>
                      /\ k \in DOMAIN inv'[p].extracted
                      /\ inv'[p].extracted[k] = inv[p].extracted[k]]_vars

-----------------------------------------------------------------------------
(* Credential resolver: strings and helpers *)

\* Credential strings are sequences of characters.  Null stands for null and
\* undefined, which the resolver does not tell apart.
Null == <<"<null>">>

\* truthiness of a string | null | undefined
IsSet(v) == v # Null /\ v # <<>>

RECURSIVE TrimStart(_)
TrimStart(s) == IF s # <<>> /\ Head(s) = " " THEN TrimStart(Tail(s)) ELSE s

RECURSIVE TrimEnd(_)
TrimEnd(s) ==
    IF s # <<>> /\ s[Len(s)] = " " THEN TrimEnd(SubSeq(s, 1, Len(s) - 1)) ELSE s

\* value.trim()
Trim(s) == TrimEnd(TrimStart(s))

\* normalizeValue: null for a value that is not a string and for a string
\* that is empty after trimming, the trimmed string otherwise
normalizeValue_Untrimmed(value) ==
    IF value = Null THEN Null
    ELSE IF Len(value) > 0 THEN value ELSE Null
normalizeValue(value) ==
    IF value = Null THEN Null
    ELSE IF Len(Trim(value)) > 0 THEN Trim(value) ELSE Null

\* buildCookieHeader: `sessionid=${sessionId}; csrftoken=${csrfToken}` and,
\* for a truthy userId, `; ds_user_id=${userId}`
buildCookieHeader(sessionId, csrfToken, userId) ==
    <<"sessionid=">> \o sessionId \o <<"; csrftoken=">> \o csrfToken
        \o (IF IsSet(userId) THEN <<"; ds_user_id=">> \o userId ELSE <<>>)

NoSource == "<null>"

\* buildEmpty()
buildEmpty ==
    [sessionId |-> Null, csrfToken |-> Null, userId |-> Null,
     cookieHeader |-> Null, source |-> NoSource]

Fields == {"sessionId", "csrfToken", "userId"}

\* the alias lists passed to readEnvCookie
EnvAliases(field) ==
    CASE field = "sessionId" -> <<"THREADS_SESSION_ID", "INSTAGRAM_SESSION_ID", "SESSION_ID">>
      [] field = "csrfToken" -> <<"THREADS_CSRF_TOKEN", "INSTAGRAM_CSRF_TOKEN", "CSRF_TOKEN">>
      [] field = "userId" -> <<"THREADS_USER_ID", "INSTAGRAM_USER_ID", "DS_USER_ID">>

EnvKeys == UNION {{EnvAliases(f)[i] : i \in 1..3} : f \in Fields}

\* for (const key of keys) { ... } of readEnvCookie from the n-th key on:
\* the cookies and the keys that were looked up
RECURSIVE readEnvKeys(_, _, _, _, _, _)
readEnvKeys(c, keys, field, e, n, reads) ==
    IF n > Len(keys) THEN [cookies |-> c, reads |-> reads]
    ELSE LET value == normalizeValue(e[keys[n]])
         IN  IF ~IsSet(value)
             THEN readEnvKeys(c, keys, field, e, n + 1, Append(reads, keys[n]))
             ELSE [cookies |->
                      [c EXCEPT ![field] = value,
                                !.source = IF c.source = NoSource
                                           THEN "env " \o keys[n] ELSE c.source],
                   reads |-> Append(reads, keys[n])]

\* readEnvCookie(cookies, keys, field): nothing is looked up for a field that
\* is already set
readEnvCookie(c, keys, field, e, reads) ==
    IF IsSet(c[field]) THEN [cookies |-> c, reads |-> reads]
    ELSE readEnvKeys(c, keys, field, e, 1, reads)

\* options.cookieSource: undefined, one source, or an array of sources
NoCookieSource == [kind |-> "undefined", list |-> <<>>]
OneCookieSource(x) == [kind |-> "one", list |-> <<x>>]
CookieSourceArray(l) == [kind |-> "array", list |-> l]

resolveSources_ChromeFirst(cookieSource) ==
    IF cookieSource.kind = "array" THEN cookieSource.list
    ELSE IF cookieSource.kind = "one" THEN cookieSource.list
    ELSE <<"chrome", "safari", "firefox">>
resolveSources(cookieSource) ==
    IF cookieSource.kind = "array" THEN cookieSource.list
    ELSE IF cookieSource.kind = "one" THEN cookieSource.list
    ELSE <<"safari", "chrome", "firefox">>

\* labelForSource, for the default profiles
labelForSource(source) ==
    CASE source = "safari" -> "Safari"
      [] source = "chrome" -> "Chrome default profile"
      [] OTHER -> "Firefox default profile"

\* (c.domain ?? '').includes(part)
DomainIncludes(domain, part) ==
    \/ part = "threads.net" /\ domain \in {".threads.net", "www.threads.net"}
    \/ part = "threads.com" /\ domain \in {".threads.com", "www.threads.com"}
    \/ part = "instagram.com" /\ domain \in {".instagram.com", "www.instagram.com"}

\* matches.find(...) for a domain, then the test of its value: the value of
\* the first match of that domain if that value is truthy, Null otherwise
FirstOfDomain(matches, part) ==
    LET hits == {i \in 1..Len(matches) : DomainIncludes(matches[i].domain, part)}
    IN  IF hits = {} THEN Null
        ELSE LET i == CHOOSE x \in hits : \A y \in hits : x <= y
             IN  IF IsSet(matches[i].value) THEN matches[i].value ELSE Null

\* pickCookieValue(cookies, name)
pickCookieValue(jar, name) ==
    LET matches == SelectSeq(jar, LAMBDA c : c.name = name /\ c.value # Null)
    IN  IF Len(matches) = 0 THEN Null
        ELSE IF FirstOfDomain(matches, "threads.net") # Null
             THEN FirstOfDomain(matches, "threads.net")
        ELSE IF FirstOfDomain(matches, "threads.com") # Null
             THEN FirstOfDomain(matches, "threads.com")
        ELSE IF FirstOfDomain(matches, "instagram.com") # Null
             THEN FirstOfDomain(matches, "instagram.com")
        ELSE matches[1].value

NoCookiesWarning(source) ==
    CASE source = "safari" -> "No Threads/Instagram cookies found in Safari. Make sure you are logged into threads.net or instagram.com in Safari."
      [] source = "chrome" -> "No Threads/Instagram cookies found in Chrome. Make sure you are logged into threads.net or instagram.com in Chrome."
      [] OTHER -> "No Threads/Instagram cookies found in Firefox. Make sure you are logged into threads.net or instagram.com in Firefox and the profile exists."

\* readThreadsCookiesFromBrowser, given what getCookies resolved with
readThreadsCookiesFromBrowser(source, got) ==
    LET sessionId == pickCookieValue(got.cookies, "sessionid")
        csrfToken == pickCookieValue(got.cookies, "csrftoken")
        userId == pickCookieValue(got.cookies, "ds_user_id")
        out == [buildEmpty EXCEPT
                   !.sessionId = IF IsSet(sessionId) THEN sessionId ELSE Null,
                   !.csrfToken = IF IsSet(csrfToken) THEN csrfToken ELSE Null,
                   !.userId = IF IsSet(userId) THEN userId ELSE Null]
    IN  IF IsSet(out.sessionId) /\ IsSet(out.csrfToken)
        THEN [cookies |-> [out EXCEPT
                              !.cookieHeader =
                                  buildCookieHeader(out.sessionId, out.csrfToken, out.userId),
                              !.source = labelForSource(source)],
              warnings |-> got.warnings]
        ELSE [cookies |-> out,
              warnings |-> Append(got.warnings, NoCookiesWarning(source))]


-----------------------------------------------------------------------------
(* Credential resolver: inputs *)

\* --session-id, --csrf-token, --user-id: absent or given; the session id may
\* also be given empty or as a single space
CliValues(field) ==
    {Null, <<"cli", field>>}
        \cup (IF field = "sessionId" THEN {<<>>, <<" ">>} ELSE {})

CookieSources ==
    {NoCookieSource, OneCookieSource("chrome"),
     CookieSourceArray(<<"firefox", "chrome">>), CookieSourceArray(<<>>)}

Options ==
    {[sessionId |-> s, csrfToken |-> c, userId |-> u, cookieSource |-> b] :
        s \in CliValues("sessionId"), c \in CliValues("csrfToken"),
        u \in CliValues("userId"), b \in CookieSources}

\* What one environment variable holds: nothing, the empty string, spaces, or
\* a value with a space on either side (the value names its variable)
EnvValue(kind, key) ==
    CASE kind = "unset" -> Null
      [] kind = "empty" -> <<>>
      [] kind = "spaces" -> <<" ", " ">>
      [] OTHER -> <<" ", key, " ">>

\* What the three aliases of one field hold
AliasPatterns ==
    {<<"unset", "unset", "unset">>, <<"value", "unset", "unset">>,
     <<"empty", "value", "unset">>, <<"spaces", "empty", "value">>,
     <<"empty", "spaces", "spaces">>, <<"unset", "value", "value">>}

AliasIndex(field, key) == CHOOSE i \in 1..3 : EnvAliases(field)[i] = key

FieldOfKey(key) == CHOOSE f \in Fields : \E i \in 1..3 : EnvAliases(f)[i] = key

Environments ==
    {[key \in EnvKeys |->
        EnvValue(pat[FieldOfKey(key)][AliasIndex(FieldOfKey(key), key)], key)] :
        pat \in [Fields -> AliasPatterns]}

\* One cookie as getCookies reports it; an undefined domain reads as ''
Cookie(name, value, domain) == [name |-> name, value |-> value, domain |-> domain]

BrowserValue(source, name) == <<source, name>>

\* What getCookies resolves with for one browser
BrowserJars(source) ==
    {[cookies |-> <<>>, warnings |-> <<"provider warning">>],
     [cookies |-> <<Cookie("sessionid", BrowserValue(source, "sessionid"), ".threads.net")>>,
      warnings |-> <<>>],
     [cookies |-> <<Cookie("sessionid", BrowserValue(source, "sessionid"), ".threads.net"),
                    Cookie("csrftoken", BrowserValue(source, "csrftoken"), ".threads.net")>>,
      warnings |-> <<>>],
     [cookies |-> <<Cookie("sessionid", BrowserValue(source, "sessionid"), ".instagram.com"),
                    Cookie("csrftoken", BrowserValue(source, "csrftoken"), ""),
                    Cookie("ds_user_id", BrowserValue(source, "ds_user_id"), ".instagram.com")>>,
      warnings |-> <<>>]}

-----------------------------------------------------------------------------
(* Credential resolver: resolveCredentials *)

NotResolved == [cookies |-> buildEmpty, warnings |-> <<>>]

CredInit ==
    /\ options \in Options
    /\ env \in Environments
    /\ cpc = "start"
    /\ cookies = buildEmpty
    /\ warnings = <<>>
    /\ toTry = <<>>
    /\ envReads = <<>>
    /\ browserCalls = <<>>
    /\ resolved = NotResolved

\* 1. CLI arguments take precedence
CliStage(o) ==
    LET c1 == IF IsSet(o.sessionId)
              THEN [buildEmpty EXCEPT !.sessionId = o.sessionId, !.source = "CLI argument"]
              ELSE buildEmpty
        c2 == IF IsSet(o.csrfToken)
              THEN [c1 EXCEPT !.csrfToken = o.csrfToken,
                              !.source = IF c1.source = NoSource
                                         THEN "CLI argument" ELSE c1.source]
              ELSE c1
    IN  IF IsSet(o.userId)
        THEN [c2 EXCEPT !.userId = o.userId,
                        !.source = IF c2.source = NoSource
                                   THEN "CLI argument" ELSE c2.source]
        ELSE c2

\* 2. Environment variables: the three readEnvCookie calls
EnvStage(c, e) ==
    LET r1 == readEnvCookie(c, EnvAliases("sessionId"), "sessionId", e, <<>>)
        r2 == readEnvCookie(r1.cookies, EnvAliases("csrfToken"), "csrfToken", e, r1.reads)
    IN  readEnvCookie(r2.cookies, EnvAliases("userId"), "userId", e, r2.reads)

WithHeader(c) ==
    [c EXCEPT !.cookieHeader = buildCookieHeader(c.sessionId, c.csrfToken, c.userId)]

MissingSessionId ==
    "Missing sessionid - provide via --session-id, THREADS_SESSION_ID env var, or login to threads.net in Safari/Chrome/Firefox"

MissingCsrfToken ==
    "Missing csrftoken - provide via --csrf-token, THREADS_CSRF_TOKEN env var, or login to threads.net in Safari/Chrome/Firefox"

\* The code after the browser loop: the warnings for what is missing, the
\* header if nothing is, and the return
AfterBrowsers(c, w) ==
    LET w1 == IF ~IsSet(c.sessionId) THEN Append(w, MissingSessionId) ELSE w
        w2 == IF ~IsSet(c.csrfToken) THEN Append(w1, MissingCsrfToken) ELSE w1
    IN  [cookies |-> IF IsSet(c.sessionId) /\ IsSet(c.csrfToken) THEN WithHeader(c) ELSE c,
         warnings |-> w2]

\* resolveCredentials up to its first await: the CLI values, the environment,
\* the early return, and the list of browsers
Resolve ==
    /\ UNCHANGED notCredVars
    /\ cpc = "start"
    /\ LET staged == EnvStage(CliStage(options), env)
           c == staged.cookies
           sourcesToTry == resolveSources(options.cookieSource)
       IN  /\ envReads' = staged.reads
           /\ IF IsSet(c.sessionId) /\ IsSet(c.csrfToken)
              THEN /\ cookies' = WithHeader(c)
                   /\ resolved' = [cookies |-> WithHeader(c), warnings |-> warnings]
                   /\ cpc' = "returned"
                   /\ UNCHANGED <<warnings, toTry>>
              ELSE IF sourcesToTry = <<>>
              THEN /\ cookies' = AfterBrowsers(c, warnings).cookies
                   /\ warnings' = AfterBrowsers(c, warnings).warnings
                   /\ resolved' = AfterBrowsers(c, warnings)
                   /\ cpc' = "returned"
                   /\ UNCHANGED toTry
              ELSE /\ cookies' = c
                   /\ toTry' = sourcesToTry
                   /\ cpc' = "browser"
                   /\ UNCHANGED <<warnings, resolved>>
    /\ UNCHANGED <<options, env, browserCalls>>

\* getCookies resolves for the next browser: the rest of
\* readThreadsCookiesFromBrowser and of the loop body, and what follows the
\* loop after the last browser
BrowserResolves ==
    /\ UNCHANGED notCredVars
    /\ cpc = "browser"
    /\ LET source == Head(toTry)
       IN  \E got \in BrowserJars(source) :
             LET res == readThreadsCookiesFromBrowser(source, got)
                 w == warnings \o res.warnings
             IN  /\ browserCalls' = Append(browserCalls, source)
                 /\ IF IsSet(res.cookies.sessionId) /\ IsSet(res.cookies.csrfToken)
                    THEN /\ warnings' = w
                         /\ resolved' = [cookies |-> res.cookies, warnings |-> w]
                         /\ cpc' = "returned"
                         /\ UNCHANGED <<cookies, toTry>>
                    ELSE IF Len(toTry) = 1
                    THEN /\ cookies' = AfterBrowsers(cookies, w).cookies
                         /\ warnings' = AfterBrowsers(cookies, w).warnings
                         /\ resolved' = AfterBrowsers(cookies, w)
                         /\ cpc' = "returned"
                         /\ toTry' = <<>>
                    ELSE /\ warnings' = w
                         /\ toTry' = Tail(toTry)
                         /\ UNCHANGED <<cookies, resolved, cpc>>
    /\ UNCHANGED <<options, env, envReads>>

\* getCookies rejects: nothing catches it, resolveCredentials rejects
BrowserRejects ==
    /\ UNCHANGED notCredVars
    /\ cpc = "browser"
    /\ browserCalls' = Append(browserCalls, Head(toTry))
    /\ cpc' = "threw"
    /\ UNCHANGED <<options, env, cookies, warnings, toTry, envReads, resolved>>

CredNext == Resolve \/ BrowserResolves \/ BrowserRejects

-----------------------------------------------------------------------------
(* Credential resolver: claims *)

\* the CLI gives both the session id and the CSRF token
CliComplete == IsSet(options.sessionId) /\ IsSet(options.csrfToken)

\* the result that the CLI values alone determine
CliOnlyCookies ==
    WithHeader([buildEmpty EXCEPT
        !.sessionId = options.sessionId,
        !.csrfToken = options.csrfToken,
        !.userId = IF IsSet(options.userId) THEN options.userId ELSE Null,
        !.source = "CLI argument"])

\* C8: when the CLI gives both the session id and the CSRF token, no
\* environment variable is looked up, no browser is queried, and the result
\* is the one the CLI values alone determine.
C8_CliOnly ==
    (cpc # "start" /\ CliComplete) =>
        /\ cpc = "returned"
        /\ envReads = <<>>
        /\ browserCalls = <<>>
        /\ resolved.cookies = CliOnlyCookies

\* C9: every field that is set after the CLI and environment stages (a CLI
\* value as given, an environment value otherwise) is returned unchanged,
\* whatever the browsers hold.
C9_StagesOnlyFill ==
    cpc = "returned" =>
        \A f \in Fields :
            /\ IsSet(options[f]) => resolved.cookies[f] = options[f]
            /\ IsSet(cookies[f]) => resolved.cookies[f] = cookies[f]

NonBlank(v) == v # Null /\ \E i \in 1..Len(v) : v[i] # " "

\* the aliases of a field that hold something other than blanks
NonBlankAliases(f) == {i \in 1..3 : NonBlank(env[EnvAliases(f)[i]])}

Looked(key) == \E i \in 1..Len(envReads) : envReads[i] = key

\* C10: for a field the CLI does not give, an alias holding only blanks counts
\* as absent: the aliases are consulted in order up to the first one that
\* holds more than blanks, whose trimmed value becomes the field; with no such
\* alias all three are consulted and the field stays unset.  Whenever the
\* session id or the CSRF token is still missing after that and there is a
\* browser to try, a browser is queried.
C10_BlankEnvIsAbsent ==
    cpc # "start" =>
        /\ \A f \in Fields :
             ~IsSet(options[f]) =>
                IF NonBlankAliases(f) = {}
                THEN /\ cookies[f] = Null
                     /\ \A i \in 1..3 : Looked(EnvAliases(f)[i])
                ELSE LET first == CHOOSE i \in NonBlankAliases(f) :
                                     \A j \in NonBlankAliases(f) : i <= j
                     IN  /\ cookies[f] = Trim(env[EnvAliases(f)[first]])
                         /\ \A i \in 1..3 : Looked(EnvAliases(f)[i]) <=> i <= first
        /\ ((~IsSet(cookies.sessionId) \/ ~IsSet(cookies.csrfToken))
              /\ resolveSources(options.cookieSource) # <<>>)
             => (cpc = "browser" \/ browserCalls # <<>>)

\* A blank first alias was skipped for the second one, the CSRF token had
\* only blank aliases, and a browser was queried.
C10_Witness ==
    /\ cpc = "returned"
    /\ options.sessionId = Null /\ options.csrfToken = Null
    /\ env["THREADS_SESSION_ID"] = <<>>
    /\ cookies.sessionId = <<"INSTAGRAM_SESSION_ID">>
    /\ env["THREADS_CSRF_TOKEN"] = <<>> /\ env["INSTAGRAM_CSRF_TOKEN"] = <<" ", " ">>
    /\ cookies.csrfToken = Null
    /\ browserCalls # <<>>

\* the Credentials are usable: the session id and the CSRF token are both
\* present and not blank
Usable(c) == NonBlank(c.sessionId) /\ NonBlank(c.csrfToken)

\* C11: in every result the cookie header is present exactly when the session
\* id and the CSRF token are both present and non-empty after trimming.
C11_HeaderIffUsable ==
    cpc = "returned" =>
        (resolved.cookies.cookieHeader # Null <=> Usable(resolved.cookies))

MissingAfterAll(field) == ~IsSet(resolved.cookies[field])

Warned(w) == \E i \in 1..Len(resolved.warnings) : resolved.warnings[i] = w

\* C12: resolveCredentials never fails, whatever the stages yield (a browser
\* query that fails included), and its warnings name every one of session id
\* and CSRF token that the result lacks.
C12_NeverFails ==
    /\ cpc # "threw"
    /\ cpc = "returned" =>
          /\ MissingAfterAll("sessionId") => Warned(MissingSessionId)
          /\ MissingAfterAll("csrfToken") => Warned(MissingCsrfToken)

\* the preference list: the caller's cookieSource, or safari, chrome, firefox
PreferenceList ==
    IF options.cookieSource = NoCookieSource THEN <<"safari", "chrome", "firefox">>
    ELSE options.cookieSource.list

\* a step that queries a browser
QueriesBrowser == browserCalls' # browserCalls

\* the result of the call is the pair of cookies of browser b
YieldedBy(b) ==
    /\ resolved.cookies.source = labelForSource(b)
    /\ IsSet(resolved.cookies.sessionId)
    /\ IsSet(resolved.cookies.csrfToken)

-----------------------------------------------------------------------------
(* Cookie choice: pickCookieValue on its own *)

MaxCookies == 3

CookieDomains == {".threads.net", ".threads.com", ".instagram.com", "example.com", ""}

\* What one cookie record is like: its name, whether its value is undefined,
\* empty or usable, and its domain ('' for none)
CookieShapes ==
    {[name |-> "csrftoken", kind |-> "usable", domain |-> ".threads.net"]}
        \cup {[name |-> "sessionid", kind |-> k, domain |-> d] :
                k \in {"undefined", "empty", "usable"}, d \in CookieDomains}

\* the value of the i-th record (usable values name their position)
ShapeValue(kind, i) ==
    CASE kind = "undefined" -> Null
      [] kind = "empty" -> <<>>
      [] OTHER -> <<"v" \o ToString(i)>>

PickJars ==
    UNION {{[i \in 1..n |-> Cookie(sh[i].name, ShapeValue(sh[i].kind, i), sh[i].domain)] :
              sh \in [1..n -> CookieShapes]} : n \in 0..MaxCookies}

PickInit ==
    /\ records \in PickJars
    /\ wanted \in {"sessionid", "csrftoken"}
    /\ ppc = "start"
    /\ picked = Null

Pick ==
    /\ UNCHANGED notPickVars
    /\ ppc = "start"
    /\ picked' = pickCookieValue(records, wanted)
    /\ ppc' = "done"
    /\ UNCHANGED <<records, wanted>>

PickNext == Pick

\* 1 for threads.net, 2 for threads.com, 3 for instagram.com, 4 for the rest
DomainRank(domain) ==
    CASE domain = ".threads.net" -> 1
      [] domain = ".threads.com" -> 2
      [] domain = ".instagram.com" -> 3
      [] OTHER -> 4

\* the records of the wanted name with a usable (non-empty string) value
UsableRecords == {i \in 1..Len(records) : records[i].name = wanted /\ IsSet(records[i].value)}

\* C13: whenever a record of the wanted name has a usable value, the value
\* picked is that of a usable record of the most preferred domain among the
\* usable records (threads.net, threads.com, instagram.com, then the rest),
\* whatever the order of the records.
C13_DomainPreference ==
    (ppc = "done" /\ UsableRecords # {}) =>
        \E i \in UsableRecords :
            /\ picked = records[i].value
            /\ \A j \in UsableRecords :
                 DomainRank(records[i].domain) <= DomainRank(records[j].domain)

-----------------------------------------------------------------------------
(* JSON values, as JSON.parse yields them, and the JavaScript operations the
   client applies to them *)

JUndef == [t |-> "undefined"]
JNull == [t |-> "null"]
JBool(b) == [t |-> "boolean", bool |-> b]
JStr(s) == [t |-> "string", str |-> s]
\* the number mant * 10^exp (an integer; exp >= 0)
JNum(m, e) == [t |-> "number", mant |-> m, exp |-> e]
JInt(m) == JNum(m, 0)
JArr(items) == [t |-> "array", items |-> items]
\* an object, given as a function from its property names to their values
JObj(fields) == [t |-> "object", fields |-> fields]
EmptyObject == JObj([k \in {} |-> JUndef])

\* the outcome of evaluating a function: a value returned or an error thrown
Returned(v) == [ok |-> TRUE, value |-> v]
Thrown(e) == [ok |-> FALSE, error |-> e]

\* v === null || v === undefined
Nullish(v) == v.t \in {"undefined", "null"}

\* a ?? b
Coalesce(a, b) == IF Nullish(a) THEN b ELSE a

\* typeof v === 'object'
TypeofObject(v) == v.t \in {"object", "array", "null"}

\* !!v
JTruthy(v) ==
    CASE Nullish(v) -> FALSE
      [] v.t = "boolean" -> v.bool
      [] v.t = "string" -> v.str # ""
      [] v.t = "number" -> v.mant # 0
      [] OTHER -> TRUE

\* v.k for a v that is neither null nor undefined (for those the read throws
\* a TypeError, which the callers below test with Nullish first): the
\* property of an object, undefined for arrays and primitives
Prop(v, k) ==
    IF v.t = "object" /\ k \in DOMAIN v.fields THEN v.fields[k] ELSE JUndef

\* v?.k
OptProp(v, k) == IF Nullish(v) THEN JUndef ELSE Prop(v, k)

\* v?.[0], for a v that is not a string
First(v) ==
    CASE Nullish(v) -> JUndef
      [] v.t = "array" -> IF Len(v.items) > 0 THEN v.items[1] ELSE JUndef
      [] v.t = "object" -> Prop(v, "0")
      [] v.t \in {"number", "boolean"} -> JUndef

Abs(n) == IF n < 0 THEN 0 - n ELSE n

RECURSIVE Pow10(_)
Pow10(e) == IF e = 0 THEN 1 ELSE 10 * Pow10(e - 1)

RECURSIVE DigitCount(_)
DigitCount(n) == IF n < 10 THEN 1 ELSE 1 + DigitCount(n \div 10)

RECURSIVE Zeros(_)
Zeros(n) == IF n = 0 THEN "" ELSE "0" \o Zeros(n - 1)

\* n in decimal, padded with zeros on the left to width w
Pad(n, w) == Zeros(w - DigitCount(n)) \o ToString(n)

RECURSIVE StripZeros(_, _)
StripZeros(m, e) ==
    IF m % 10 = 0 THEN StripZeros(m \div 10, e + 1) ELSE [mant |-> m, exp |-> e]

\* Number.prototype.toString for an integer: positional up to 21 digits,
\* exponential beyond
NumberToString(n) ==
    IF n.mant = 0 THEN "0"
    ELSE LET sign == IF n.mant < 0 THEN "-" ELSE ""
             a == Abs(n.mant)
         IN  IF DigitCount(a) + n.exp <= 21
             THEN sign \o ToString(a) \o Zeros(n.exp)
             ELSE LET r == StripZeros(a, n.exp)
                      k == DigitCount(r.mant)
                      lead == r.mant \div Pow10(k - 1)
                      rest == r.mant % Pow10(k - 1)
                  IN  sign \o ToString(lead)
                        \o (IF k > 1 THEN "." \o Pad(rest, k - 1) ELSE "")
                        \o "e+" \o ToString(k - 1 + r.exp)

\* String(v); an array is its elements joined with commas, null and undefined
\* elements giving the empty string
RECURSIVE JString(_)
RECURSIVE JoinFrom(_, _)
JoinFrom(items, i) ==
    IF i > Len(items) THEN ""
    ELSE (IF i > 1 THEN "," ELSE "")
           \o (IF Nullish(items[i]) THEN "" ELSE JString(items[i]))
           \o JoinFrom(items, i + 1)
JString(v) ==
    CASE v.t = "string" -> v.str
      [] v.t = "number" -> NumberToString(v)
      [] v.t = "boolean" -> IF v.bool THEN "true" ELSE "false"
      [] v.t = "null" -> "null"
      [] v.t = "undefined" -> "undefined"
      [] v.t = "object" -> "[object Object]"
      [] v.t = "array" -> JoinFrom(v.items, 1)

\* The largest time value of a Date is 8.64e15 ms: new Date(v * 1000) is a
\* valid date exactly when |v| <= 8.64e12.
\* (8.64e12 = 864 * 10^10; a mantissa is below 2^31, so below 8.64e12 / 10^3)
DateInRange(n) ==
    \/ n.mant = 0
    \/ n.exp <= 3
    \/ n.exp \in 4..10 /\ Abs(n.mant) <= 864 * Pow10(10 - n.exp)
    \/ n.exp \in 11..12 /\ Abs(n.mant) <= 864 \div Pow10(n.exp - 10)

\* the civil date of a day number (days since 1970-01-01)
CivilFromDays(days) ==
    LET z == days + 719468
        era == z \div 146097
        doe == z - era * 146097
        yoe == (doe - (doe \div 1460) + (doe \div 36524) - (doe \div 146096)) \div 365
        doy == doe - (365 * yoe + (yoe \div 4) - (yoe \div 100))
        mp == (5 * doy + 2) \div 153
        d == doy - ((153 * mp + 2) \div 5) + 1
        m == IF mp < 10 THEN mp + 3 ELSE mp - 9
    IN  [year |-> yoe + era * 400 + (IF m <= 2 THEN 1 ELSE 0), month |-> m, day |-> d]

\* new Date(secs * 1000).toISOString() for 0 <= secs < 2^31
ISOString(secs) ==
    LET date == CivilFromDays(secs \div 86400)
        sod == secs % 86400
    IN  Pad(date.year, 4) \o "-" \o Pad(date.month, 2) \o "-" \o Pad(date.day, 2)
          \o "T" \o Pad(sod \div 3600, 2) \o ":" \o Pad((sod % 3600) \div 60, 2)
          \o ":" \o Pad(sod % 60, 2) \o ".000Z"

\* parseTimestamp(value), with Date.now() = today seconds
parseTimestamp(value, today) ==
    IF value.t = "number"
    THEN IF DateInRange(value)
         THEN Returned(ISOString(value.mant * Pow10(value.exp)))
         ELSE Thrown("RangeError")
    ELSE IF value.t = "string" THEN Returned(value.str)
    ELSE Returned(ISOString(today))

-----------------------------------------------------------------------------
(* Response normalizer: parseUserData, parsePostData, parseMedia,
   parsePostList, parseUserList *)

\* typeof a === 'number' ? a : typeof b === 'number' ? b : undefined
NumberOr(a, b) == IF a.t = "number" THEN a ELSE IF b.t = "number" THEN b ELSE JUndef

\* a ? String(a) : b ? String(b) : undefined
StringOr(a, b) ==
    IF JTruthy(a) THEN JStr(JString(a))
    ELSE IF JTruthy(b) THEN JStr(JString(b)) ELSE JUndef

\* the PostMedia record pushed for m (a carousel item or the post itself)
\* whose first candidate c0 is truthy
MediaItem(m, c0) ==
    LET videoVersions == Prop(m, "video_versions")
        videoUrl == OptProp(First(videoVersions), "url")
    IN  [type |-> IF Prop(m, "media_type") = JInt(2) THEN "video" ELSE "image",
         url |-> JString(Coalesce(Prop(c0, "url"), JStr(""))),
         width |-> Prop(c0, "width"),
         height |-> Prop(c0, "height"),
         videoUrl |-> IF JTruthy(videoUrl) THEN JStr(JString(videoUrl)) ELSE JUndef]

\* imageVersions?.candidates, then candidates?.[0]
FirstCandidate(m) == First(OptProp(Prop(m, "image_versions2"), "candidates"))

MediaList(items) == [t |-> "media", items |-> items]

\* for (const item of carouselMedia): reading a property of a null or
\* undefined item throws
RECURSIVE CarouselFrom(_, _, _)
CarouselFrom(items, i, media) ==
    IF i > Len(items) THEN Returned(media)
    ELSE IF Nullish(items[i]) THEN Thrown("TypeError")
    ELSE IF JTruthy(FirstCandidate(items[i]))
         THEN CarouselFrom(items, i + 1,
                           Append(media, MediaItem(items[i], FirstCandidate(items[i]))))
         ELSE CarouselFrom(items, i + 1, media)

\* parseMedia(postData), for the object or array that parsePostData passes
parseMedia(postData) ==
    LET carouselMedia == Prop(postData, "carousel_media")
    IN  IF carouselMedia.t = "array"
        THEN LET r == CarouselFrom(carouselMedia.items, 1, <<>>)
             IN  IF ~r.ok THEN r
                 ELSE Returned(IF Len(r.value) > 0 THEN MediaList(r.value) ELSE JUndef)
        ELSE IF JTruthy(FirstCandidate(postData))
             THEN Returned(MediaList(<<MediaItem(postData, FirstCandidate(postData))>>))
             ELSE Returned(JUndef)

\* d.post ?? d.thread ?? dData?.post ?? threadItems?.[0]?.post ?? d
PostRoot_ThreadFirst(d) ==
    Coalesce(Prop(d, "thread"),
    Coalesce(Prop(d, "post"),
    Coalesce(OptProp(Prop(d, "data"), "post"),
    Coalesce(OptProp(First(OptProp(Prop(d, "containing_thread"), "thread_items")), "post"),
             d))))
PostRoot(d) ==
    Coalesce(Prop(d, "post"),
    Coalesce(Prop(d, "thread"),
    Coalesce(OptProp(Prop(d, "data"), "post"),
    Coalesce(OptProp(First(OptProp(Prop(d, "containing_thread"), "thread_items")), "post"),
             d))))

\* parsePostData(data), with Date.now() = today seconds: null, a PostData
\* record, or the error thrown by parseTimestamp or parseMedia
parsePostData(data, today) ==
    IF ~JTruthy(data) \/ ~TypeofObject(data) THEN Returned(JNull)
    ELSE LET postData == PostRoot(data)
         IN  IF ~JTruthy(postData) \/ ~TypeofObject(postData) THEN Returned(JNull)
             ELSE LET p == postData
                      user == Coalesce(Prop(p, "user"), Coalesce(Prop(p, "owner"), EmptyObject))
                      caption == Coalesce(Prop(p, "caption"), EmptyObject)
                      info == Prop(p, "text_post_app_info")
                      createdAt == parseTimestamp(
                          Coalesce(Prop(p, "taken_at"),
                          Coalesce(Prop(p, "timestamp"), Prop(p, "createdAt"))), today)
                      media == parseMedia(p)
                 IN  IF ~createdAt.ok THEN createdAt
                     ELSE IF ~media.ok THEN media
                     ELSE Returned(
                       [id |-> JString(Coalesce(Prop(p, "pk"), Coalesce(Prop(p, "id"), JStr("")))),
                        code |-> JString(Coalesce(Prop(p, "code"),
                                         Coalesce(Prop(p, "shortcode"), JStr("")))),
                        text |-> JString(Coalesce(Prop(caption, "text"),
                                         Coalesce(Prop(p, "text"),
                                         Coalesce(Prop(p, "caption"), JStr(""))))),
                        author |->
                          [id |-> JString(Coalesce(Prop(user, "pk"),
                                          Coalesce(Prop(user, "id"), JStr("")))),
                           username |-> JString(Coalesce(Prop(user, "username"), JStr(""))),
                           fullName |-> JString(Coalesce(Prop(user, "full_name"),
                                                Coalesce(Prop(user, "fullName"), JStr("")))),
                           profilePicUrl |-> StringOr(Prop(user, "profile_pic_url"), JUndef),
                           isVerified |-> Prop(user, "is_verified") = JBool(TRUE)],
                        createdAt |-> createdAt.value,
                        likeCount |-> NumberOr(Prop(p, "like_count"), Prop(p, "likeCount")),
                        replyCount |-> NumberOr(OptProp(info, "direct_reply_count"),
                                                Prop(p, "replyCount")),
                        repostCount |-> NumberOr(OptProp(info, "repost_count"),
                                                 Prop(p, "repostCount")),
                        media |-> media.value,
                        raw |-> data])

\* d.user ?? dData?.user ?? barcelonaProfile?.user ?? d
UserRoot(d) ==
    Coalesce(Prop(d, "user"),
    Coalesce(OptProp(Prop(d, "data"), "user"),
    Coalesce(OptProp(Prop(d, "barcelona_profile"), "user"), d)))

\* parseUserData(data): null or a UserData record
parseUserData(data) ==
    IF ~JTruthy(data) \/ ~TypeofObject(data) THEN Returned(JNull)
    ELSE LET userData == UserRoot(data)
         IN  IF ~JTruthy(userData) \/ ~TypeofObject(userData) THEN Returned(JNull)
             ELSE LET u == userData
                  IN  Returned(
                        [id |-> JString(Coalesce(Prop(u, "pk"), Coalesce(Prop(u, "id"),
                                        Coalesce(Prop(u, "user_id"), JStr(""))))),
                         username |-> JString(Coalesce(Prop(u, "username"), JStr(""))),
                         fullName |-> JString(Coalesce(Prop(u, "full_name"),
                                              Coalesce(Prop(u, "fullName"), JStr("")))),
                         bio |-> StringOr(Prop(u, "biography"), Prop(u, "bio")),
                         profilePicUrl |-> StringOr(Prop(u, "profile_pic_url"),
                                                    Prop(u, "profilePicUrl")),
                         followerCount |-> NumberOr(Prop(u, "follower_count"),
                                                    Prop(u, "followerCount")),
                         followingCount |-> NumberOr(Prop(u, "following_count"),
                                                     Prop(u, "followingCount")),
                         threadCount |-> NumberOr(OptProp(Prop(u, "text_post_app_info"),
                                                          "thread_count"), JUndef),
                         isPrivate |-> \/ Prop(u, "is_private") = JBool(TRUE)
                                       \/ Prop(u, "isPrivate") = JBool(TRUE),
                         isVerified |-> \/ Prop(u, "is_verified") = JBool(TRUE)
                                        \/ Prop(u, "isVerified") = JBool(TRUE),
                         raw |-> data])

\* pageInfo?.end_cursor, else d.next_cursor, each only if truthy
ExtractCursor(d) ==
    LET endCursor == OptProp(Prop(d, "page_info"), "end_cursor")
    IN  IF JTruthy(endCursor) THEN JStr(JString(endCursor))
        ELSE IF JTruthy(Prop(d, "next_cursor")) THEN JStr(JString(Prop(d, "next_cursor")))
        ELSE JUndef

\* for (const item of items) of parsePostList: i.node ?? i.post ?? i.thread ?? i
RECURSIVE PostsFrom(_, _, _, _)
PostsFrom(items, i, posts, today) ==
    IF i > Len(items) THEN Returned(posts)
    ELSE IF Nullish(items[i]) THEN Thrown("TypeError")
    ELSE LET it == items[i]
             postData == Coalesce(Prop(it, "node"),
                         Coalesce(Prop(it, "post"), Coalesce(Prop(it, "thread"), it)))
             post == parsePostData(postData, today)
         IN  IF ~post.ok THEN post
             ELSE PostsFrom(items, i + 1,
                            IF post.value # JNull THEN Append(posts, post.value) ELSE posts,
                            today)

\* parsePostList(data)
parsePostList(data, today) ==
    IF ~JTruthy(data) \/ ~TypeofObject(data)
    THEN Returned([list |-> <<>>, nextCursor |-> JUndef])
    ELSE LET d == data
             items == Coalesce(Prop(d, "threads"),
                      Coalesce(Prop(d, "items"),
                      Coalesce(Prop(d, "edges"),
                      Coalesce(Prop(d, "thread_items"),
                      Coalesce(OptProp(Prop(d, "data"), "threads"), JArr(<<>>))))))
             posts == IF items.t = "array" THEN PostsFrom(items.items, 1, <<>>, today)
                      ELSE Returned(<<>>)
         IN  IF ~posts.ok THEN posts
             ELSE Returned([list |-> posts.value, nextCursor |-> ExtractCursor(d)])

\* for (const item of items) of parseUserList: i.node ?? i.user ?? i
RECURSIVE UsersFrom(_, _, _)
UsersFrom(items, i, users) ==
    IF i > Len(items) THEN Returned(users)
    ELSE IF Nullish(items[i]) THEN Thrown("TypeError")
    ELSE LET it == items[i]
             userData == Coalesce(Prop(it, "node"), Coalesce(Prop(it, "user"), it))
             user == parseUserData(userData)
         IN  UsersFrom(items, i + 1,
                       IF user.value # JNull THEN Append(users, user.value) ELSE users)

\* parseUserList(data)
parseUserList(data) ==
    IF ~JTruthy(data) \/ ~TypeofObject(data)
    THEN Returned([list |-> <<>>, nextCursor |-> JUndef])
    ELSE LET d == data
             items == Coalesce(Prop(d, "users"),
                      Coalesce(Prop(d, "items"), Coalesce(Prop(d, "edges"), JArr(<<>>))))
             users == IF items.t = "array" THEN UsersFrom(items.items, 1, <<>>)
                      ELSE Returned(<<>>)
         IN  IF ~users.ok THEN users
             ELSE Returned([list |-> users.value, nextCursor |-> ExtractCursor(d)])

-----------------------------------------------------------------------------
(* Response normalizer: payloads *)

MaxItems == 2

NoFields == [k \in {} |-> JUndef]

\* the property k with value v, or no property for an undefined v
Field(k, v) == IF v = JUndef THEN NoFields ELSE k :> v

ImageVersions(url) ==
    JObj([candidates |-> JArr(<<JObj([url |-> JStr(url), width |-> JInt(640),
                                      height |-> JInt(480)])>>)])

\* the media properties of a post object: none, one image, a carousel of a
\* video and an item without candidates, a carousel with a null item
MediaFields ==
    {NoFields,
     "image_versions2" :> ImageVersions("https://cdn/1.jpg"),
     "carousel_media" :>
        JArr(<<JObj([image_versions2 |-> ImageVersions("https://cdn/2.jpg"),
                     media_type |-> JInt(2),
                     video_versions |-> JArr(<<JObj([url |-> JStr("https://cdn/2.mp4")])>>)]),
               JObj([media_type |-> JInt(1)])>>),
     "carousel_media" :> JArr(<<JNull>>)}

VideoVersions(url) == JArr(<<JObj([url |-> JStr(url)])>>)

\* the elements of a carousel: an image, a video, a video without video
\* versions, an image with video versions, an element whose candidate list is
\* empty, one whose candidate has no url, one without media properties, null
CarouselElements ==
    {JObj([image_versions2 |-> ImageVersions("https://cdn/a.jpg"), media_type |-> JInt(1)]),
     JObj([image_versions2 |-> ImageVersions("https://cdn/b.jpg"), media_type |-> JInt(2),
           video_versions |-> VideoVersions("https://cdn/b.mp4")]),
     JObj([image_versions2 |-> ImageVersions("https://cdn/c.jpg"), media_type |-> JInt(2)]),
     JObj([image_versions2 |-> ImageVersions("https://cdn/d.jpg"), media_type |-> JInt(1),
           video_versions |-> VideoVersions("https://cdn/d.mp4")]),
     JObj([image_versions2 |-> JObj([candidates |-> JArr(<<>>)]), media_type |-> JInt(2),
           video_versions |-> VideoVersions("https://cdn/e.mp4")]),
     JObj([image_versions2 |-> JObj([candidates |-> JArr(<<JObj([width |-> JInt(1)])>>)]),
           media_type |-> JInt(1), video_versions |-> JArr(<<>>)]),
     JObj([media_type |-> JInt(1)]),
     JNull}

\* the carousels of up to MaxItems elements
Carousels == UNION {[1..n -> CarouselElements] : n \in 0..MaxItems}

\* the media properties of the post itself: none, an image, a video
OwnMedia ==
    {NoFields,
     [image_versions2 |-> ImageVersions("https://cdn/own.jpg"), media_type |-> JInt(1)],
     [image_versions2 |-> ImageVersions("https://cdn/own.jpg"), media_type |-> JInt(2),
      video_versions |-> VideoVersions("https://cdn/own.mp4")]}

\* the posts that parseMedia is given: with and without a carousel array
MediaPosts ==
    {JObj(own @@ [pk |-> JStr("1")]) : own \in OwnMedia}
    \cup {JObj(own @@ [pk |-> JStr("1"), carousel_media |-> JArr(c)]) :
            own \in OwnMedia, c \in Carousels}

\* taken_at: absent, Unix seconds, a string, microseconds
TakenAtValues == {JUndef, JInt(1700000000), JStr("2024-01-01T00:00:00Z"), JNum(17, 14)}

\* post objects as the API returns them
PostObjects ==
    {JObj(Field("pk", pk) @@ Field("id", id) @@ Field("taken_at", at) @@ media
          @@ [code |-> JStr("CuXFPIeLLod"),
              caption |-> JObj([text |-> JStr("hello")]),
              user |-> JObj([pk |-> JInt(7), username |-> JStr("zuck"),
                             is_verified |-> JBool(TRUE)]),
              like_count |-> JInt(3),
              text_post_app_info |-> JObj([direct_reply_count |-> JInt(1)])]) :
        pk \in {JUndef, JStr("3141592653589793238"), JInt(42)},
        id \in {JUndef, JStr("3141592653589793238_7")},
        at \in TakenAtValues,
        media \in MediaFields}

\* a second post, to tell which root was taken
OtherPost ==
    JObj([pk |-> JStr("999"), code |-> JStr("other"), text |-> JStr("other"),
          timestamp |-> JInt(86400)])

InThreadItems(p) == JObj([thread_items |-> JArr(<<JObj([post |-> p])>>)])

\* the payloads given to parsePostData: a post object bare, under each of the
\* four roots, under two roots at once, and values that are not objects
PostPayloads ==
    UNION {{p,
            JObj([post |-> p]),
            JObj([thread |-> p]),
            JObj([data |-> JObj([post |-> p])]),
            JObj([containing_thread |-> InThreadItems(p)]),
            JObj([post |-> p, thread |-> OtherPost]),
            JObj([thread |-> p, data |-> JObj([post |-> OtherPost])]),
            JObj([data |-> JObj([post |-> p]), containing_thread |-> InThreadItems(OtherPost)]),
            JObj([post |-> JNull, thread |-> p]),
            JObj([post |-> JStr("deleted"), thread |-> p])} : p \in PostObjects}
      \cup {JNull, JUndef, JInt(5), JStr("x"), JArr(<<>>), EmptyObject}

UserObjects ==
    {JObj(Field("pk", pk) @@ Field("username", name)
          @@ [full_name |-> JStr("Mark"), follower_count |-> JInt(10),
              is_private |-> JBool(FALSE)]) :
        pk \in {JUndef, JStr("314216"), JInt(7)},
        name \in {JUndef, JStr("zuck")}}

UserPayloads ==
    UNION {{u, JObj([user |-> u]), JObj([data |-> JObj([user |-> u])]),
            JObj([barcelona_profile |-> JObj([user |-> u])])} : u \in UserObjects}
      \cup {JNull, JUndef, JInt(5), EmptyObject}

\* the paging properties of a list payload
PagingFields ==
    {NoFields,
     "page_info" :> JObj([end_cursor |-> JStr("end1")]),
     "next_cursor" :> JStr("next2"),
     ("page_info" :> JObj([end_cursor |-> JStr("end1")])) @@ ("next_cursor" :> JStr("next2")),
     ("page_info" :> JObj([end_cursor |-> JNull])) @@ ("next_cursor" :> JInt(25)),
     "next_max_id" :> JStr("max3"),
     "paging_tokens" :> JObj([downward |-> JStr("down4")]),
     ("next_cursor" :> JStr("next2")) @@ ("next_max_id" :> JStr("max3"))}

\* sequences of at most MaxItems elements of a set
ListsOf(S) == UNION {[1..n -> S] : n \in 0..MaxItems}

GoodPost == JObj([pk |-> JStr("1"), code |-> JStr("a"), taken_at |-> JInt(1700000000)])

\* elements of a post list: posts bare and wrapped, an object without an id,
\* null, a number
PostElements ==
    {JObj([node |-> GoodPost]), JObj([post |-> OtherPost]), GoodPost,
     JObj([code |-> JStr("noid")]), JNull, JInt(5)}

PostListPayloads ==
    {JObj(("threads" :> JArr(l)) @@ paging) : l \in ListsOf(PostElements), paging \in PagingFields}
      \cup {JObj([data |-> JObj([threads |-> JArr(l)])]) : l \in ListsOf(PostElements)}
      \cup {JObj([items |-> JArr(<<GoodPost>>), edges |-> JArr(<<OtherPost>>)]),
            JObj([edges |-> JArr(<<GoodPost>>), thread_items |-> JArr(<<OtherPost>>)]),
            JObj([thread_items |-> JArr(<<GoodPost>>)]),
            JObj([threads |-> JStr("none")]),
            JNull, JUndef, JInt(5), EmptyObject}

GoodUser == JObj([pk |-> JStr("7"), username |-> JStr("zuck")])

UserElements ==
    {JObj([node |-> GoodUser]), JObj([user |-> GoodUser]), GoodUser,
     JObj([username |-> JStr("noid")]), JNull, JInt(5)}

UserListPayloads ==
    {JObj(("users" :> JArr(l)) @@ paging) : l \in ListsOf(UserElements), paging \in PagingFields}
      \cup {JObj([items |-> JArr(<<GoodUser>>), edges |-> JArr(<<>>)]),
            JObj([edges |-> JArr(<<GoodUser>>)]),
            JNull, JUndef, EmptyObject}

TimestampValues ==
    TakenAtValues
      \cup {JInt(0), JInt(951782400), JInt(2147483647), JNum(1, 13), JNull, JBool(TRUE),
            JStr(""), EmptyObject}

Parsers ==
    {"parseUserData", "parsePostData", "parseMedia", "parseTimestamp",
     "parsePostList", "parseUserList", "getPost", "getUserByUsername"}

\* the arguments a function is called with; getPost and getUserByUsername
\* are given the data of a successful GraphQL response
PayloadsOf(f) ==
    CASE f \in {"parsePostData", "getPost"} -> PostPayloads
      [] f \in {"parseUserData", "getUserByUsername"} -> UserPayloads
      [] f = "parseMedia" -> PostObjects \cup MediaPosts
      [] f = "parseTimestamp" -> TimestampValues
      [] f = "parsePostList" -> PostListPayloads
      [] f = "parseUserList" -> UserListPayloads

Clocks == {1700000000, 1700086400}

-----------------------------------------------------------------------------
(* Response normalizer: the calls *)

NotParsed == [ok |-> TRUE, value |-> JUndef]

ParseInit ==
    /\ parser \in Parsers
    /\ payload \in PayloadsOf(parser)
    /\ clock \in Clocks
    /\ npc = "start"
    /\ parsed = NotParsed

\* getPost after a successful graphqlRequest with this data
getPost(data, today) ==
    LET post == parsePostData(data, today)
    IN  IF ~post.ok THEN post
        ELSE IF post.value # JNull
        THEN Returned([success |-> TRUE, record |-> post.value])
        ELSE Returned([success |-> FALSE, error |-> "Post not found"])

\* getUserByUsername after a successful graphqlRequest with this data
getUserByUsername(data) ==
    LET user == parseUserData(data)
    IN  IF user.value # JNull
        THEN Returned([success |-> TRUE, record |-> user.value])
        ELSE Returned([success |-> FALSE, error |-> "User not found"])

ParseUserData ==
    /\ UNCHANGED notParseVars
    /\ parser = "parseUserData"
    /\ npc = "start"
    /\ parsed' = parseUserData(payload)
    /\ npc' = "done"
    /\ UNCHANGED <<parser, payload, clock>>

ParsePostData ==
    /\ UNCHANGED notParseVars
    /\ parser = "parsePostData"
    /\ npc = "start"
    /\ parsed' = parsePostData(payload, clock)
    /\ npc' = "done"
    /\ UNCHANGED <<parser, payload, clock>>

ParseMedia ==
    /\ UNCHANGED notParseVars
    /\ parser = "parseMedia"
    /\ npc = "start"
    /\ parsed' = parseMedia(payload)
    /\ npc' = "done"
    /\ UNCHANGED <<parser, payload, clock>>

ParseTimestamp ==
    /\ UNCHANGED notParseVars
    /\ parser = "parseTimestamp"
    /\ npc = "start"
    /\ parsed' = parseTimestamp(payload, clock)
    /\ npc' = "done"
    /\ UNCHANGED <<parser, payload, clock>>

ParsePostList ==
    /\ UNCHANGED notParseVars
    /\ parser = "parsePostList"
    /\ npc = "start"
    /\ parsed' = parsePostList(payload, clock)
    /\ npc' = "done"
    /\ UNCHANGED <<parser, payload, clock>>

ParseUserList ==
    /\ UNCHANGED notParseVars
    /\ parser = "parseUserList"
    /\ npc = "start"
    /\ parsed' = parseUserList(payload)
    /\ npc' = "done"
    /\ UNCHANGED <<parser, payload, clock>>

GetPost ==
    /\ UNCHANGED notParseVars
    /\ parser = "getPost"
    /\ npc = "start"
    /\ parsed' = getPost(payload, clock)
    /\ npc' = "done"
    /\ UNCHANGED <<parser, payload, clock>>

GetUserByUsername ==
    /\ UNCHANGED notParseVars
    /\ parser = "getUserByUsername"
    /\ npc = "start"
    /\ parsed' = getUserByUsername(payload)
    /\ npc' = "done"
    /\ UNCHANGED <<parser, payload, clock>>

ParseNext ==
    \/ ParseUserData \/ ParsePostData \/ ParseMedia \/ ParseTimestamp
    \/ ParsePostList \/ ParseUserList \/ GetPost \/ GetUserByUsername

-----------------------------------------------------------------------------
(* Response normalizer: claims *)

ParseDone(f) == parser = f /\ npc = "done"

\* C16: getPost and getUserByUsername succeed only with a record whose id is
\* not empty and otherwise fail with the not-found message; every element of
\* the list of parsePostList and parseUserList has an id that is not empty.
C16_NoRecordWithoutId ==
    (npc = "done" /\ parsed.ok) =>
        /\ parser \in {"getPost", "getUserByUsername"} =>
             IF parsed.value.success
             THEN parsed.value.record.id # ""
             ELSE parsed.value.error \in {"Post not found", "User not found"}
        /\ parser \in {"parsePostList", "parseUserList"} =>
             \A i \in 1..Len(parsed.value.list) : parsed.value.list[i].id # ""

\* the four Post roots of a payload object, in the order post, thread,
\* data.post, containing_thread.thread_items[0].post
RootsOf(d) ==
    <<Prop(d, "post"), Prop(d, "thread"), OptProp(Prop(d, "data"), "post"),
      OptProp(First(OptProp(Prop(d, "containing_thread"), "thread_items")), "post")>>

\* the shapes under which the payload carries something
ShapesPresent == {i \in 1..4 : ~Nullish(RootsOf(payload)[i])}

\* what the first shape present carries
FirstRoot ==
    RootsOf(payload)[CHOOSE i \in ShapesPresent : \A j \in ShapesPresent : i <= j]

\* the payload that carries p under the i-th shape only
WrapAs(i, p) ==
    CASE i = 1 -> JObj([post |-> p])
      [] i = 2 -> JObj([thread |-> p])
      [] i = 3 -> JObj([data |-> JObj([post |-> p])])
      [] i = 4 -> JObj([containing_thread |-> InThreadItems(p)])

WithoutRaw(r) ==
    IF r.ok /\ r.value # JNull THEN [r EXCEPT !.value.raw = JUndef] ELSE r

\* C17 as stated: the result for a payload is the one that each of the four
\* shapes gives when it wraps what the first shape present in the payload
\* carries.
C17_SameAcrossShapes ==
    (ParseDone("parsePostData") /\ payload.t = "object" /\ ShapesPresent # {}) =>
        \A i \in 1..4 : parsed = parsePostData(WrapAs(i, FirstRoot), clock)

\* C17, amended: the same, for every field of the result but raw (which is
\* the payload as given).
C17_SameButRaw ==
    (ParseDone("parsePostData") /\ payload.t = "object" /\ ShapesPresent # {}) =>
        \A i \in 1..4 :
            WithoutRaw(parsed) = WithoutRaw(parsePostData(WrapAs(i, FirstRoot), clock))

\* A payload with a thread root and a data.post root was parsed to the post
\* under thread.
C17_Witness ==
    /\ ParseDone("parsePostData")
    /\ payload.t = "object"
    /\ ShapesPresent = {2, 3}
    /\ RootsOf(payload)[3] = OtherPost
    /\ parsed.ok /\ parsed.value # JNull
    /\ parsed.value.id = "42"
    /\ parsed.value.createdAt = "2023-11-14T22:13:20.000Z"
    /\ parsed.value.media # JUndef

\* the element e of a carousel, or the post e, has an image candidate
HasImageCandidate(e) ==
    /\ e.t = "object"
    /\ "image_versions2" \in DOMAIN e.fields
    /\ e.fields["image_versions2"].t = "object"
    /\ "candidates" \in DOMAIN e.fields["image_versions2"].fields
    /\ e.fields["image_versions2"].fields["candidates"].t = "array"
    /\ Len(e.fields["image_versions2"].fields["candidates"].items) > 0

\* the URL of its first image candidate ('' when the candidate has none)
ImageUrlOf(e) ==
    LET c == e.fields["image_versions2"].fields["candidates"].items[1]
    IN  IF "url" \in DOMAIN c.fields THEN c.fields["url"].str ELSE ""

\* e has a video candidate: a first entry of video_versions with a URL
HasVideoCandidate(e) ==
    /\ e.t = "object"
    /\ "video_versions" \in DOMAIN e.fields
    /\ e.fields["video_versions"].t = "array"
    /\ Len(e.fields["video_versions"].items) > 0
    /\ "url" \in DOMAIN e.fields["video_versions"].items[1].fields

\* the type code of e is 2
IsVideoType(e) ==
    /\ "media_type" \in DOMAIN e.fields
    /\ e.fields["media_type"] = JInt(2)

\* the item it is the one that the claim describes for e
DescribedBy(it, e) ==
    /\ it.url = ImageUrlOf(e)
    /\ it.type = (IF IsVideoType(e) THEN "video" ELSE "image")
    /\ (it.videoUrl # JUndef) <=> HasVideoCandidate(e)

HasCarousel(post) ==
    /\ "carousel_media" \in DOMAIN post.fields
    /\ post.fields["carousel_media"].t = "array"

\* what the claim says parseMedia gives for the elements es
MediaAsClaimed(es) ==
    LET kept == SelectSeq(es, HasImageCandidate)
    IN  IF kept = <<>> THEN parsed.value = JUndef
        ELSE /\ parsed.value # JUndef
             /\ Len(parsed.value.items) = Len(kept)
             /\ \A i \in 1..Len(kept) : DescribedBy(parsed.value.items[i], kept[i])

\* C30: parseMedia returns no media or a non-empty list; for a post with a
\* carousel array the list has one item per element with an image candidate,
\* in the order of the carousel, of type video exactly for type code 2 and
\* with a video URL exactly for an element with a video candidate; the
\* candidates of the post itself are used only when there is no carousel array.
C30_CarouselMedia ==
    ParseDone("parseMedia") =>
        /\ parsed.ok
        /\ IF HasCarousel(payload)
           THEN MediaAsClaimed(payload.fields["carousel_media"].items)
           ELSE MediaAsClaimed(<<payload>>)

\* the same for posts whose carousel, if any, has no null element
C30_ObjectElements ==
    (/\ ParseDone("parseMedia")
     /\ HasCarousel(payload) =>
           \A i \in DOMAIN payload.fields["carousel_media"].items :
               payload.fields["carousel_media"].items[i] # JNull) =>
        /\ parsed.ok
        /\ IF HasCarousel(payload)
           THEN MediaAsClaimed(payload.fields["carousel_media"].items)
           ELSE MediaAsClaimed(<<payload>>)

\* C18: parseUserData, parsePostData, parseMedia, parsePostList and
\* parseUserList return for every payload; none of them throws.
C18_NormalizerNeverThrows ==
    (npc = "done" /\ parser \in {"parseUserData", "parsePostData", "parseMedia",
                                 "parsePostList", "parseUserList"})
        => parsed.ok

\* C19: parseTimestamp never throws; it reads a number as Unix seconds
\* (1700000000 is 2023-11-14T22:13:20Z), returns a string as it is, and gives
\* the current instant for anything else.
C19_Timestamp ==
    ParseDone("parseTimestamp") =>
        /\ parsed.ok
        /\ payload = JInt(1700000000) => parsed.value = "2023-11-14T22:13:20.000Z"
        /\ payload = JInt(0) => parsed.value = "1970-01-01T00:00:00.000Z"
        /\ payload = JInt(951782400) => parsed.value = "2000-02-29T00:00:00.000Z"
        /\ payload.t = "string" => parsed.value = payload.str
        /\ payload.t \notin {"number", "string"} =>
             parsed.value \in {"2023-11-14T22:13:20.000Z", "2023-11-15T22:13:20.000Z"}

\* the four cursor fields of a list payload, in the order of precedence
CursorFields(d) ==
    <<OptProp(Prop(d, "page_info"), "end_cursor"), Prop(d, "next_cursor"),
      Prop(d, "next_max_id"), OptProp(Prop(d, "paging_tokens"), "downward")>>

CursorsPresent == {i \in 1..4 : JTruthy(CursorFields(payload)[i])}

\* C20: the cursor of a page is the first of page_info.end_cursor,
\* next_cursor, next_max_id and paging_tokens.downward that the payload
\* carries, and is absent only when it carries none of them.
C20_CursorPrecedence ==
    (npc = "done" /\ parser \in {"parsePostList", "parseUserList"} /\ parsed.ok
       /\ payload.t = "object") =>
        IF CursorsPresent = {} THEN parsed.value.nextCursor = JUndef
        ELSE parsed.value.nextCursor =
               JStr(JString(CursorFields(payload)[
                   CHOOSE i \in CursorsPresent : \A j \in CursorsPresent : i <= j]))

-----------------------------------------------------------------------------
(* Client: fetchWithTimeout, graphqlRequest and the methods built on it *)

\* A response body: its text, in pieces (the first piece is how it begins),
\* and what JSON.parse makes of it
JsonBody(label, v) == [text |-> <<"{", label, "}">>, json |-> Returned(v)]
MarkupBody(start) ==
    [text |-> <<start, "<head><title>Log in</title></head>">>, json |-> Thrown("SyntaxError")]
EmptyBody == [text |-> <<>>, json |-> Thrown("SyntaxError")]
\* a body of 250 characters that is not JSON
LongBody == [text |-> [i \in 1..250 |-> "x"], json |-> Thrown("SyntaxError")]

\* how a fetch ends: a response, a network failure, or the abort by the timer
Response(status, body) == [kind |-> "response", status |-> status, body |-> body]
NetworkFailure == [kind |-> "failed"]
Aborted == [kind |-> "aborted"]
NoReply == [kind |-> "none"]

\* response.ok
ResponseOk(r) == r.status >= 200 /\ r.status <= 299

Statuses == {200, 401, 500}

\* the timeout is armed: !(!this.timeoutMs || this.timeoutMs <= 0)
TimeoutArmed(t) == JTruthy(t) /\ t.mant > 0

Timeouts == {JUndef, JInt(0), JInt(5000)}

Success(v) == [success |-> TRUE, value |-> v]
Failure(e) == [success |-> FALSE, error |-> e]

\* error.message of the SyntaxError of response.json()
SyntaxMessage(body) ==
    IF body.text = <<>> THEN <<"Unexpected end of JSON input">>
    ELSE <<"Unexpected token, \"", Head(body.text), "\"... is not valid JSON">>

\* errors.map((e) => e.message ?? 'Unknown error').join('; '), in pieces
RECURSIVE ErrorMessages(_, _)
ErrorMessages(errors, i) ==
    IF i > Len(errors) THEN <<>>
    ELSE (IF i > 1 THEN <<"; ">> ELSE <<>>)
           \o <<JString(Coalesce(Prop(errors[i], "message"), JStr("Unknown error")))>>
           \o ErrorMessages(errors, i + 1)

\* text.slice(0, n) of a text given in pieces, each piece counting as one
\* character
Slice(text, n) == IF Len(text) <= n THEN text ELSE SubSeq(text, 1, n)

\* what graphqlRequest makes of the parsed body of a 2xx response
Classify(data) ==
    LET errors == Prop(data, "errors")
    IN  IF Nullish(data)
        THEN Failure(<<"Cannot read properties of null (reading 'errors')">>)
        ELSE IF errors.t = "string" /\ errors.str # ""
        THEN Failure(<<"errors.map is not a function">>)
        ELSE IF errors.t = "array" /\ Len(errors.items) > 0
        THEN Failure(ErrorMessages(errors.items, 1))
        ELSE Success(Prop(data, "data"))

\* graphqlRequest, given how its fetch ended
graphqlRequest_ParseFirst(r) ==
    CASE r.kind = "aborted" -> Failure(<<"Request timed out">>)
      [] r.kind = "failed" -> Failure(<<"fetch failed">>)
      [] r.kind = "response" ->
           IF r.body.json.ok /\ ~Classify(r.body.json.value).success
           THEN Classify(r.body.json.value)
           ELSE IF ~ResponseOk(r)
           THEN Failure(<<"HTTP ", ToString(r.status), ": ">> \o Slice(r.body.text, 200))
           ELSE IF ~r.body.json.ok THEN Failure(SyntaxMessage(r.body))
           ELSE Classify(r.body.json.value)
graphqlRequest(r) ==
    CASE r.kind = "aborted" -> Failure(<<"Request timed out">>)
      [] r.kind = "failed" -> Failure(<<"fetch failed">>)
      [] r.kind = "response" ->
           IF ~ResponseOk(r)
           THEN Failure(<<"HTTP ", ToString(r.status), ": ">> \o Slice(r.body.text, 200))
           ELSE IF ~r.body.json.ok THEN Failure(SyntaxMessage(r.body))
           ELSE Classify(r.body.json.value)

\* the user record that the account-info fallback of whoami builds
CurrentUser(data) ==
    LET userData == Coalesce(Prop(data, "user"), data)
    IN  [id |-> JString(Coalesce(Prop(userData, "pk"),
                        Coalesce(Prop(userData, "id"), JStr("unknown")))),
         username |-> JString(Coalesce(Prop(userData, "username"), JStr("unknown"))),
         fullName |-> JString(Coalesce(Prop(userData, "full_name"),
                              Coalesce(Prop(userData, "fullName"), JStr("")))),
         bio |-> StringOr(Prop(userData, "biography"), Prop(userData, "bio")),
         profilePicUrl |-> StringOr(Prop(userData, "profile_pic_url"),
                                    Prop(userData, "profilePicUrl")),
         followerCount |-> NumberOr(Prop(userData, "follower_count"),
                                    Prop(userData, "followerCount")),
         followingCount |-> NumberOr(Prop(userData, "following_count"),
                                     Prop(userData, "followingCount")),
         isPrivate |-> \/ Prop(userData, "is_private") = JBool(TRUE)
                       \/ Prop(userData, "isPrivate") = JBool(TRUE),
         isVerified |-> \/ Prop(userData, "is_verified") = JBool(TRUE)
                        \/ Prop(userData, "isVerified") = JBool(TRUE),
         raw |-> data]

\* the account-info fallback of whoami, given how its fetch ended
currentUserRequest(r) ==
    CASE r.kind = "aborted" -> Failure(<<"This operation was aborted">>)
      [] r.kind = "failed" -> Failure(<<"fetch failed">>)
      [] r.kind = "response" ->
           IF ~ResponseOk(r)
           THEN Failure(<<"HTTP ", ToString(r.status), ": Unable to fetch current user">>)
           ELSE IF ~r.body.json.ok THEN Failure(SyntaxMessage(r.body))
           ELSE IF Nullish(r.body.json.value)
           THEN Failure(<<"Cannot read properties of null (reading 'user')">>)
           ELSE Success(CurrentUser(r.body.json.value))

\* What a method makes of a successful graphqlRequest: its result, returned
\* or thrown; whoami without a user in the data goes on to the fallback.
GoOn == [ok |-> TRUE, value |-> [fallback |-> TRUE]]

\* the answer of a single-record method, from its lookup r
RecordAnswer(r) ==
    IF ~r.ok THEN r
    ELSE IF r.value.success THEN Returned(Success(r.value.record))
    ELSE Returned(Failure(<<r.value.error>>))

\* the answer of a list method, from its parsed list r
ListAnswer(r) == IF ~r.ok THEN r ELSE Returned(Success(r.value))

\* whoami after its GraphQL request: the user, or on to the fallback
UserAnswer(user) == IF user.value # JNull THEN Returned(Success(user.value)) ELSE GoOn

AfterGraphql(method, data, today) ==
    CASE method = "getPost" -> RecordAnswer(getPost(data, today))
      [] method = "getUserByUsername" -> RecordAnswer(getUserByUsername(data))
      [] method = "getFollowers" -> ListAnswer(parseUserList(data))
      [] method = "whoami" -> UserAnswer(parseUserData(data))

\* a method from the result of its graphqlRequest on: a failure is returned
\* as it is
MethodOutcome(method, result, today) ==
    IF ~result.success THEN Returned(result)
    ELSE AfterGraphql(method, result.value, today)

\* one method of each kind: a post, a user, a list, and whoami with its fallback
Methods == {"getPost", "getUserByUsername", "getFollowers", "whoami"}

\* the data of the GraphQL responses of a method
DataOf(method) ==
    CASE method = "getPost" -> {JObj([post |-> GoodPost]), EmptyObject, JUndef}
      [] method = "getUserByUsername" -> {JObj([user |-> GoodUser]), JNull}
      [] method = "getFollowers" ->
           {JObj([users |-> JArr(<<GoodUser>>), next_cursor |-> JStr("next2")]),
            JObj([users |-> JArr(<<JNull>>)])}
      [] method = "whoami" -> {JObj([user |-> GoodUser]), JNull}

\* the bodies the GraphQL endpoint answers a method with
GraphqlBodies(method) ==
    {JsonBody("data", JObj(Field("data", d))) : d \in DataOf(method)}
      \cup {JsonBody("errors", JObj([errors |-> JArr(<<JObj([message |-> JStr("Rate limited")]),
                                                         EmptyObject>>)])),
            JsonBody("null", JNull),
            MarkupBody("<!DOCTYPE"), MarkupBody("<html"), EmptyBody, LongBody}

\* the bodies the account-info endpoint answers with
RestBodies ==
    {JsonBody("user", JObj([user |-> JObj([pk |-> JInt(7), username |-> JStr("zuck")])])),
     JsonBody("flat", JObj([id |-> JStr("7"), full_name |-> JStr("Mark")])),
     JsonBody("null", JNull),
     MarkupBody("<!DOCTYPE"), MarkupBody("<html"), EmptyBody}

NoAnswer == [success |-> FALSE, error |-> <<>>]

ClientInit ==
    /\ operation \in Methods
    /\ timeoutMs \in Timeouts
    /\ clientUserId \in {Null, <<"7">>}
    /\ tpc = "start"
    /\ reply = NoReply
    /\ answer = NoAnswer
    /\ graphqlResult = NoAnswer

\* the method is called and issues its first request: whoami without a user
\* id goes to the account-info endpoint at once
Send ==
    /\ UNCHANGED notClientVars
    /\ tpc = "start"
    /\ tpc' = IF operation = "whoami" /\ ~IsSet(clientUserId) THEN "rest" ELSE "graphql"
    /\ UNCHANGED <<operation, timeoutMs, clientUserId, reply, answer, graphqlResult>>

\* the method ends with outcome out: it throws, goes on to the fallback, or
\* returns its answer
Settle(out) ==
    IF ~out.ok
    THEN /\ tpc' = "threw"
         /\ UNCHANGED answer
    ELSE IF out = GoOn
    THEN /\ tpc' = "rest"
         /\ UNCHANGED answer
    ELSE /\ answer' = out.value
         /\ tpc' = "done"

\* the rest of the method once its fetch has ended as r
Finish(r) ==
    /\ reply' = r
    /\ IF tpc = "rest"
       THEN /\ Settle(Returned(currentUserRequest(r)))
            /\ UNCHANGED graphqlResult
       ELSE /\ Settle(MethodOutcome(operation, graphqlRequest(r), clock))
            /\ graphqlResult' = graphqlRequest(r)
    /\ UNCHANGED <<operation, timeoutMs, clientUserId>>

\* fetch resolves with a response
RequestResolves ==
    /\ UNCHANGED notClientVars
    /\ tpc \in {"graphql", "rest"}
    /\ \E status \in Statuses :
         \E body \in (IF tpc = "rest" THEN RestBodies ELSE GraphqlBodies(operation)) :
            Finish(Response(status, body))

\* fetch rejects: the network failed
RequestFails ==
    /\ UNCHANGED notClientVars
    /\ tpc \in {"graphql", "rest"}
    /\ Finish(NetworkFailure)

\* the timer of fetchWithTimeout fires first and aborts the request
RequestTimesOut ==
    /\ UNCHANGED notClientVars
    /\ tpc \in {"graphql", "rest"}
    /\ TimeoutArmed(timeoutMs)
    /\ Finish(Aborted)

ClientNext == Send \/ RequestResolves \/ RequestFails \/ RequestTimesOut

-----------------------------------------------------------------------------
(* Client claims *)

\* the method has ended and its last request got a response whose body
\* begins with <!DOCTYPE or <html
Markup == {"<!DOCTYPE", "<html"}
MarkupAnswered ==
    /\ tpc \in {"done", "threw"}
    /\ reply.kind = "response"
    /\ reply.body.text # <<>>
    /\ Head(reply.body.text) \in Markup

\* the answer is the failure of a non-2xx status
IsHttpError(a) == ~a.success /\ a.error # <<>> /\ Head(a.error) = "HTTP "

\* the answer is the failure of parsing body as JSON
IsParseError(a, body) == ~a.success /\ a.error = SyntaxMessage(body)

\* C14: a response whose body begins with <!DOCTYPE or <html is, for every
\* status, never answered with success, with the failure of a non-2xx
\* status or with a failure to parse, but with a failure of its own kind
\* (session invalid).
C14_MarkupIsAuthError ==
    MarkupAnswered =>
        /\ tpc = "done"
        /\ ~answer.success
        /\ ~IsHttpError(answer)
        /\ ~IsParseError(answer, reply.body)

\* the method has ended and its last request was aborted by the timer
TimedOut == tpc \in {"done", "threw"} /\ reply = Aborted

\* C15: when the timer aborts the request in flight, every method, the
\* account-info fallback of whoami included, returns the failure
\* 'Request timed out': it does not throw and does not give another message.
C15_TimeoutReported ==
    TimedOut => tpc = "done" /\ answer = Failure(<<"Request timed out">>)

-----------------------------------------------------------------------------
(* Command: from the resolved credentials to the first request *)

NoClient == [made |-> FALSE]

\* new ThreadsClient({ cookies, timeoutMs }): the client, or the error thrown
ThreadsClient(c) ==
    IF ~IsSet(c.sessionId) \/ ~IsSet(c.csrfToken)
    THEN Thrown("Both sessionId and csrfToken cookies are required")
    ELSE Returned([made |-> TRUE,
                   csrfToken |-> c.csrfToken,
                   userId |-> c.userId,
                   cookieHeader |-> IF c.cookieHeader = Null THEN <<>> ELSE c.cookieHeader,
                   sessionId |-> c.sessionId])

\* the credentials a request of client k carries: the cookie and
\* x-csrftoken headers of getBaseHeaders
Request(k) == [cookie |-> k.cookieHeader, csrfToken |-> k.csrfToken, sessionId |-> k.sessionId]

WarnLine(w) == <<"warn", w>>
RECURSIVE WarnLines(_)
WarnLines(ws) == IF ws = <<>> THEN <<>> ELSE <<WarnLine(Head(ws))>> \o WarnLines(Tail(ws))

MissingCredentialsLines ==
    <<"err: Missing required credentials",
      "hint: Login to threads.net in your browser, or provide --session-id and --csrf-token">>

SourceLine(c) == IF c.source # NoSource THEN <<<<"source", c.source>>>> ELSE <<>>

CommandInit ==
    /\ kpc = "resolve"
    /\ client = NoClient
    /\ sent = <<>>
    /\ errLines = <<>>
    /\ exitStatus = "none"

\* the action callback once resolveCredentials has returned: the warnings,
\* the credential check, the client and the call of its method, which
\* issues the first request
CheckCredentials ==
    /\ UNCHANGED notCommandVars
    /\ UNCHANGED credVars
    /\ kpc = "resolve"
    /\ cpc = "returned"
    /\ LET c == resolved.cookies
           made == ThreadsClient(c)
       IN  IF ~IsSet(c.sessionId) \/ ~IsSet(c.csrfToken)
           THEN /\ errLines' = WarnLines(resolved.warnings) \o MissingCredentialsLines
                /\ exitStatus' = "1"
                /\ kpc' = "exited"
                /\ UNCHANGED <<client, sent>>
           ELSE IF ~made.ok
           THEN /\ errLines' = WarnLines(resolved.warnings) \o SourceLine(c)
                                 \o <<made.error>>
                /\ exitStatus' = "1"
                /\ kpc' = "exited"
                /\ UNCHANGED <<client, sent>>
           ELSE /\ errLines' = WarnLines(resolved.warnings) \o SourceLine(c)
                /\ client' = made.value
                /\ sent' = Append(sent, Request(made.value))
                /\ kpc' = "requested"
                /\ UNCHANGED exitStatus

\* resolveCredentials rejected: the callback rejects, and main reports the
\* error and exits
CommandRejects ==
    /\ UNCHANGED notCommandVars
    /\ UNCHANGED credVars
    /\ kpc = "resolve"
    /\ cpc = "threw"
    /\ errLines' = <<"err: getCookies failed">>
    /\ exitStatus' = "1"
    /\ kpc' = "exited"
    /\ UNCHANGED <<client, sent>>

\* a caller constructs the client itself from the resolved credentials,
\* without the command's check
Construct ==
    /\ UNCHANGED notCommandVars
    /\ UNCHANGED credVars
    /\ kpc = "resolve"
    /\ cpc = "returned"
    /\ IF ThreadsClient(resolved.cookies).ok
       THEN /\ client' = ThreadsClient(resolved.cookies).value
            /\ kpc' = "client"
       ELSE /\ kpc' = "threw"
            /\ UNCHANGED client
    /\ UNCHANGED <<sent, errLines, exitStatus>>

\* a method of the constructed client issues a request
CallMethod ==
    /\ UNCHANGED notCommandVars
    /\ UNCHANGED credVars
    /\ kpc = "client"
    /\ sent' = Append(sent, Request(client))
    /\ kpc' = "requested"
    /\ UNCHANGED <<client, errLines, exitStatus>>

CommandNext ==
    \/ Resolve \/ BrowserResolves \/ BrowserRejects
    \/ CheckCredentials \/ CommandRejects \/ Construct \/ CallMethod

-----------------------------------------------------------------------------
(* Command claims *)

\* resolveCredentials returned credentials that lack the session id or the
\* CSRF token, and the command or caller has gone on from there
MissingResolved ==
    /\ kpc \notin {"resolve", "idle"}
    /\ cpc = "returned"
    /\ (~IsSet(resolved.cookies.sessionId) \/ ~IsSet(resolved.cookies.csrfToken))

\* with missing credentials the command fails and the constructor throws,
\* before any client exists and before any request
C21_MissingEndsBeforeCall ==
    MissingResolved =>
        /\ sent = <<>>
        /\ client = NoClient
        /\ \/ kpc = "exited" /\ exitStatus = "1"
           \/ kpc = "threw"

\* every request carries a session id and a CSRF token that are usable
C21_SentUsable ==
    \A i \in 1..Len(sent) : NonBlank(sent[i].sessionId) /\ NonBlank(sent[i].csrfToken)

\* C21: no request is ever issued with unusable credentials: the check comes
\* before the client and the first request, missing credentials end the
\* command with a failure before any request, and the constructor throws
\* when the session id or the CSRF token is missing.
C21_NoCallWithoutCredentials == C21_SentUsable /\ C21_MissingEndsBeforeCall

-----------------------------------------------------------------------------
(* Requests: the doc_id and lsd of the client's GraphQL requests *)

\* const DOC_IDS of the client
DOC_IDS ==
    [userByUsername |-> "23996318473300828",
     userData |-> "9360915773983802",
     threadDetail |-> "6529829603744567",
     threadReplies |-> "6684830921547925",
     homeTimeline |-> "7846151975432989",
     userThreads |-> "6232751443445612",
     likedThreads |-> "9360047727362754",
     savedThreads |-> "6354918684616234",
     followers |-> "7707543692631249",
     following |-> "7050524464970894",
     searchThreads |-> "6529829603744567"]

DEFAULT_LSD == "AVqbxe3J_YA"

\* requests of one client instance that a run follows
MaxRequests == 2

\* the body of the request that graphqlRequest sends for a query
GraphqlBody(docId) == [lsd |-> DEFAULT_LSD, doc_id |-> docId]

RequestInit ==
    /\ wire = <<>>
    /\ idCalls = 0

\* a method of the client issues its GraphQL request: whoami (userData),
\* getUserByUsername, getPost (threadDetail), getReplies, getUserPosts,
\* getHomeFeed, getLikes, getSaved, getFollowers, getFollowing, search
GraphqlCall ==
    /\ UNCHANGED notRequestVars
    /\ UNCHANGED docVars
    /\ Len(wire) < MaxRequests
    /\ \E name \in DOMAIN DOC_IDS :
         wire' = Append(wire, [name |-> name, body |-> GraphqlBody(DOC_IDS[name])])
    /\ UNCHANGED idCalls

RequestNext == GraphqlCall

-----------------------------------------------------------------------------
(* Request claims *)

\* what getDocIds resolves while the cache file holds a fresh record: the
\* record's map and token (C6)
CacheFresh == loadCachedDocIds(file, now).hit /\ DOMAIN file.docIds = DocIdKeys

\* C22: every request carries the doc_id and the token that the cache
\* resolves for its query name, and the client has called getDocIds before
\* its first request.
C22_RequestsUseResolvedIds ==
    (CacheFresh /\ wire # <<>>) =>
        /\ idCalls > 0
        /\ \A i \in 1..Len(wire) :
              /\ wire[i].body.doc_id = file.docIds[wire[i].name]
              /\ file.lsdToken # Undefined => wire[i].body.lsd = file.lsdToken

\* the parsed body is an object with a non-empty top-level errors list
HasErrors(body) ==
    /\ body.json.ok
    /\ body.json.value.t = "object"
    /\ "errors" \in DOMAIN body.json.value.fields
    /\ body.json.value.fields.errors.t = "array"
    /\ body.json.value.fields.errors.items # <<>>

\* the message of one entry of the errors list
MessageOf(e) ==
    IF "message" \in DOMAIN e.fields THEN e.fields.message.str ELSE "Unknown error"

\* the messages of the errors list, joined by '; '
RECURSIVE Joined(_)
Joined(items) ==
    IF Len(items) = 1 THEN <<MessageOf(items[1])>>
    ELSE <<MessageOf(items[1]), "; ">> \o Joined(Tail(items))

\* the first n pieces of a text
FirstPieces(text, n) == [i \in 1..(IF Len(text) < n THEN Len(text) ELSE n) |-> text[i]]

\* a step in which graphqlRequest returns
GraphqlReturns == tpc = "graphql" /\ tpc' # "graphql"

\* C25: graphqlRequest always returns a result, and classifies a response in
\* a fixed order: a non-2xx status gives the failure 'HTTP <status>: ' with
\* the first 200 characters of the body, whatever the body holds; a 2xx body
\* with a non-empty errors list gives the failure made of its messages joined
\* by '; '; success is returned only otherwise, with the data of the payload.
C25_Classification ==
    [][GraphqlReturns =>
          /\ graphqlResult' # NoAnswer
          /\ reply'.kind = "response" =>
                /\ ~ResponseOk(reply') =>
                      graphqlResult' =
                          Failure(<<"HTTP ", ToString(reply'.status), ": ">>
                                    \o FirstPieces(reply'.body.text, 200))
                /\ (ResponseOk(reply') /\ HasErrors(reply'.body)) =>
                      graphqlResult' =
                          Failure(Joined(reply'.body.json.value.fields.errors.items))
                /\ graphqlResult'.success =>
                      /\ ResponseOk(reply')
                      /\ reply'.body.json.ok
                      /\ ~HasErrors(reply'.body)
                      /\ graphqlResult'.value = Prop(reply'.body.json.value, "data")]_vars

\* a 500 response with a body of 250 characters was cut to 200, and so was
\* not parsed
C25_Witness ==
    /\ tpc = "done"
    /\ reply = Response(500, LongBody)
    /\ Len(graphqlResult.error) = 203
    /\ answer = graphqlResult

-----------------------------------------------------------------------------
(* Specifications *)

WalkIdle ==
    /\ cmd = "home"
    /\ cmdOpts = [maxPages |-> NoMaxPages, all |-> FALSE, cursor |-> Undefined]
    /\ wpc = "idle"
    /\ maxPages = NaN
    /\ cursor = Undefined
    /\ allPosts = <<>>
    /\ pageCount = 0
    /\ fetchLog = <<>>
    /\ lastPage = NoPage
    /\ stderr = <<>>
    /\ stdout = NoOutput
    /\ exitCode = "none"

DocIdle ==
    /\ file = AbsentFile
    /\ now = Epoch0
    /\ inv = [p \in Procs |-> IdleCall]
    /\ calls = 0
    /\ ticks = 0

CredIdle ==
    /\ options = [sessionId |-> Null, csrfToken |-> Null, userId |-> Null,
                  cookieSource |-> NoCookieSource]
    /\ env = [key \in EnvKeys |-> Null]
    /\ cpc = "idle"
    /\ cookies = buildEmpty
    /\ warnings = <<>>
    /\ toTry = <<>>
    /\ envReads = <<>>
    /\ browserCalls = <<>>
    /\ resolved = NotResolved

PickIdle ==
    /\ records = <<>>
    /\ wanted = "sessionid"
    /\ ppc = "idle"
    /\ picked = Null

ParseIdle ==
    /\ parser = "none"
    /\ payload = JUndef
    /\ clock = 0
    /\ npc = "idle"
    /\ parsed = NotParsed

ClientIdle ==
    /\ operation = "none"
    /\ timeoutMs = JUndef
    /\ clientUserId = Null
    /\ tpc = "idle"
    /\ reply = NoReply
    /\ answer = NoAnswer
    /\ graphqlResult = NoAnswer

CommandIdle ==
    /\ kpc = "idle"
    /\ client = NoClient
    /\ sent = <<>>
    /\ errLines = <<>>
    /\ exitStatus = "none"

RequestIdle ==
    /\ wire = <<>>
    /\ idCalls = 0

WalkSpecInit == WalkInit /\ DocIdle /\ CredIdle /\ PickIdle /\ ParseIdle /\ ClientIdle /\ CommandIdle /\ RequestIdle

DocSpecInit == DocInit /\ WalkIdle /\ CredIdle /\ PickIdle /\ ParseIdle /\ ClientIdle /\ CommandIdle /\ RequestIdle

CredSpecInit == CredInit /\ WalkIdle /\ DocIdle /\ PickIdle /\ ParseIdle /\ ClientIdle /\ CommandIdle /\ RequestIdle

PickSpecInit == PickInit /\ WalkIdle /\ DocIdle /\ CredIdle /\ ParseIdle /\ ClientIdle /\ CommandIdle /\ RequestIdle

ParseSpecInit == ParseInit /\ WalkIdle /\ DocIdle /\ CredIdle /\ PickIdle /\ ClientIdle /\ CommandIdle /\ RequestIdle

ClientSpecInit == ClientInit /\ WalkIdle /\ DocIdle /\ CredIdle /\ PickIdle /\ ParseIdle /\ CommandIdle /\ RequestIdle

SpecWalk == WalkSpecInit /\ [][WalkNext]_vars

SpecDocIds == DocSpecInit /\ [][DocNext]_vars
SpecDocRace == DocSpecInit /\ [][RaceNext]_vars
SpecDocClear == DocSpecInit /\ [][ClearNext]_vars

SpecCreds == CredSpecInit /\ [][CredNext]_vars

SpecPick == PickSpecInit /\ [][PickNext]_vars

SpecParse == ParseSpecInit /\ [][ParseNext]_vars

SpecClient == ClientSpecInit /\ [][ClientNext]_vars

CommandSpecInit ==
    CommandInit /\ CredInit /\ WalkIdle /\ DocIdle /\ PickIdle /\ ParseIdle /\ ClientIdle /\ RequestIdle

SpecCommand == CommandSpecInit /\ [][CommandNext]_vars

RequestSpecInit ==
    RequestInit /\ DocInit /\ WalkIdle /\ CredIdle /\ PickIdle /\ ParseIdle /\ ClientIdle /\ CommandIdle

SpecRequests == RequestSpecInit /\ [][RequestNext]_vars

=============================================================================
